---- MODULE Spec2Model ----
(***************************************************************************)
(* A model of the C wrapper around the V8 engine (v8_c_api.cpp).           *)
(*                                                                         *)
(* Three facets of the wrapper are modelled, each with its own             *)
(* specification over the same variables:                                  *)
(*   SpecPriv  the per-context private-data side-table (v8_embedded_data)  *)
(*   SpecLock  the isolate lock: v8_IsolateEnter / v8_IsolateExit,         *)
(*             v8_NewUnlocker / v8_FreeUnlocker and v8_FreeContext         *)
(*   SpecPD    the per-isolate pd list of native-function records          *)
(***************************************************************************)
EXTENDS Integers, Sequences, FiniteSets, TLC

VARIABLES
    \* ---- contexts and their side-tables
    contexts,        \* v8_context wrappers: id -> [isolate, persistent_ctx, handle, state]
    engineContexts,  \* v8::Context objects: id -> embedder data (slot -> table id)
    embeddedData,    \* heap of v8_embedded_data: table id -> [vec, deleted]
    contextRefs,     \* v8_context_ref wrappers: id -> [context]
    refOrigin,       \* history: ref id -> the v8_context it was obtained from
    slots,           \* history: context id -> index -> "never", "set" or "reset",
                     \*   the last call the caller made on the index
    \* ---- the isolate lock
    lockedBy,        \* the threads inside v8::Locker's critical section
    pc,              \* thread -> the step of the call the thread is executing
    frames,          \* thread -> stack of live v8_isolate_scope / v8::Unlocker objects
    entered,         \* thread -> isolate->Enter() calls not yet matched by Exit()
    fc,              \* thread -> the locals of the v8_FreeContext call in progress
    fcTrace,         \* history: thread -> the steps its v8_FreeContext call has done
    \* ---- the pd list
    pd_list,         \* v8_pd_list: [start, end]
    pd_nodes,        \* heap of v8_pd_node: id -> [prev, next, data, free_data, freed]
    nf_pds,          \* heap of v8_native_function_pd: id -> [func, pd, freePD, node, weak, freed]
    isolate,         \* "live" or "disposed"
    deleterCalls,    \* history: record id -> times the user deleter was invoked on it
    weakFired,       \* history: the records released by the GC weak callback
    near_oom,        \* v8_IsolateSetNearOOMHandler calls: id -> [pd, free_pd, node]
    freePdCalls,     \* history: near-OOM call id -> times free_pd(pd) was invoked
    nullCalled,      \* a call through a NULL function pointer has been made
    fi,              \* the v8_FreeIsolate call: [pc, native_data, allocator]
    isolateData,     \* blocks owned by the isolate: [id, list, allocator]
    \* ---- isolate ids
    ISOLATE_ID_COUNTER, \* the process-wide atomic counter
    isolates,        \* engine isolates: id -> data slots [OUR_SLOT, ISOLATE_ID_INDEX]
    idBlocks,        \* heap of uint64_t id blocks: block -> value, "uninit" before the write
    ni,              \* thread -> the v8_NewIsolate call in progress
    niBefore,        \* history: isolate -> the isolates returned before its call began
    \* ---- the allocator and the wrapper blocks
    allocator,       \* the static v8_allocator pointer: "unset" or the allocator installed
    initCalls,       \* history: the arguments of the v8_Initialize calls, in order
    blocks,          \* heap blocks: id -> [kind, origin, allocated_by, free, released_by]
    \* ---- promises
    promises,        \* engine promises: id -> [state, result]
    resolverCalls,   \* history: promise id -> number of resolve and reject calls made on it
    \* ---- handle scopes and persisted values
    handles,         \* the engine's stack of local handle slots: [value, hid]
    scopes,          \* the open v8_handlers_scope objects, innermost last: [prev_next, sid]
    scopeCount,      \* history: number of scopes created so far
    locals,          \* the v8_local_value objects created: [slot, hid, sid, val, from]
    persisted,       \* the v8_persisted_value objects created: [value, of, state, freedBy]
    \* ---- engine calls that can fail
    process,         \* "running", or "aborted" after a fatal error of the engine
    callLog,         \* history: the wrapper calls made: [op, outcome, returned, ret]
    \* ---- termination of a running script
    run,             \* the v8_Run call of the running thread: [pc, kind, steps]
    terminate_requested,  \* the engine's pending termination request
    termination,     \* history of the calls of the other thread since the run began
    runLog,          \* history: the v8_Run calls that returned
    \* ---- the pd list and the isolate lock
    fiCaller,        \* the thread inside v8_FreeIsolate, 0 when none
    lastMutation,    \* history: the last mutation of the pd list: [op, thread, held]
    \* ---- the native function trampoline
    wrappers,        \* the v8_local_value blocks callbacks returned: [value, frees]
    lastCall,        \* history: the last call through the trampoline
    \* ---- persisted handles as GC roots
    objects,         \* the engine objects created: [kind, alive]
    localRoots,      \* the objects the open handle scope roots
    persistents,     \* the v8::Persistent blocks created: [kind, obj, block, root, trace]
    \* ---- the inspector client: the message loop of a pause
    onWaitFrontendMessageOnPause_,  \* the std::function the loop invokes: [empty, fn]
    terminated_,                    \* v8_inspector_client_wrapper::terminated_
    run_nested_loop_,               \* v8_inspector_client_wrapper::run_nested_loop_
    pauseFrames,                    \* the runMessageLoopOnPause calls running, outermost first
    pauseLog,                       \* history of the loop running: [quit, zero, waits, nested, fn]
    inspectorCreated,               \* v8_InspectorCreate was called
    \* ---- the inspector channel: the on-response callback
    onResponse_,                 \* the std::function responses go to: [empty, fn, inst]
    onResponseUserDataDeleter_,  \* the std::function freeing its user data: [empty, fn, inst]
    installs,                    \* the v8_InspectorSetOnResponseCallback calls made
    respDeleterCalls,                \* per installation (0: v8_InspectorCreate), deleter calls
    lastSet,                     \* history: the steps of the last Set call
    lastResponse                 \* history: the last response or notification

privVars == <<contexts, engineContexts, embeddedData, contextRefs, refOrigin, slots>>
lockVars == <<lockedBy, pc, frames, entered, fc, fcTrace>>
pdVars == <<pd_list, pd_nodes, nf_pds, isolate, deleterCalls, weakFired,
           near_oom, freePdCalls, nullCalled, fi, isolateData>>
idVars == <<ISOLATE_ID_COUNTER, isolates, idBlocks, ni, niBefore>>
allocVars == <<allocator, initCalls, blocks>>
promiseVars == <<promises, resolverCalls>>
handleVars == <<handles, scopes, scopeCount, locals, persisted>>
callVars == <<process, callLog>>
termVars == <<run, terminate_requested, termination, runLog>>
pdLockVars == <<fiCaller, lastMutation>>
trampVars == <<wrappers, lastCall>>
rootVars == <<objects, localRoots, persistents>>
pauseVars ==
    <<onWaitFrontendMessageOnPause_, terminated_, run_nested_loop_, pauseFrames, pauseLog,
      inspectorCreated>>
respVars ==
    <<onResponse_, onResponseUserDataDeleter_, installs, respDeleterCalls, lastSet,
      lastResponse>>
moreVars ==
    <<idVars, allocVars, promiseVars, handleVars, callVars, termVars, pdLockVars,
      trampVars, rootVars, pauseVars, respVars>>
vars == <<privVars, lockVars, pdVars, moreVars>>

-----------------------------------------------------------------------------
(* Bounds of the model *)

MaxRef == 1
MaxIndex == 1
NumThreads == 2
MaxDepth == 2
MaxPd == 2
MaxOom == 2
MaxIsolates == 3
MaxInit == 2
MaxBlocks == 2
MaxResolvers == 2
MaxCalls == 2
MaxScopes == 2
MaxLocals == 3
MaxPersisted == 1
MaxCallLog == 2
MaxRuns == 2
MaxTerminate == 2
MaxCancel == 2
MaxSteps == 1
MaxWrappers == 2
MaxArgs == 2
MaxObjects == 2
MaxPersistents == 2
MaxWaits == 3
MaxNested == 2
MaxInstalls == 2
MaxResponses == 2

(* Program constants *)

OUR_SLOT == 1
ISOLATE_ID_INDEX == 2

NULL == 0
ISOLATE_ID_INVALID == 0
Ptrs == {1, 2}
Threads == 1..NumThreads
\* two contexts: enough to tell a context from another one
CtxIds == {1, 2}
Indices == 0..MaxIndex

INTERNAL_OFFSET == ISOLATE_ID_INDEX + OUR_SLOT
DATA_INDEX(user_index) == user_index + INTERNAL_OFFSET

-----------------------------------------------------------------------------
(* v8_embedded_data: a std::vector<void*>; vec[i] of the code is vec[i+1] here *)

\* std::vector::resize(n): truncates when n < size, appends NULLs when n > size
VecResize(vec, n) ==
    IF n <= Len(vec) THEN SubSeq(vec, 1, n)
    ELSE vec \o [k \in 1..(n - Len(vec)) |-> NULL]

\* a set that grows the table but never shrinks it
EmbeddedSetGrowOnly(vec, index, d) ==
    [(IF index + 1 <= Len(vec) THEN vec ELSE VecResize(vec, index + 1))
        EXCEPT ![index + 1] = d]

\* a set that stores one slot too high
EmbeddedSetOffByOne(vec, index, d) ==
    [VecResize(vec, index + 2) EXCEPT ![index + 2] = d]

\* a set that fills the new slots with the value instead of NULL
EmbeddedSetFill(vec, index, d) ==
    IF index + 1 <= Len(vec) THEN [SubSeq(vec, 1, index + 1) EXCEPT ![index + 1] = d]
    ELSE vec \o [k \in 1..(index + 1 - Len(vec)) |-> d]

EmbeddedSet(vec, index, d) ==
    [VecResize(vec, index + 1) EXCEPT ![index + 1] = d]

EmbeddedGet(vec, index) ==
    IF index >= Len(vec) THEN NULL ELSE vec[index + 1]

\* a reset that erases the slot instead of clearing it
EmbeddedResetErase(vec, index) ==
    IF index >= Len(vec) THEN vec
    ELSE SubSeq(vec, 1, index) \o SubSeq(vec, index + 2, Len(vec))

EmbeddedReset(vec, index) ==
    IF index >= Len(vec) THEN vec ELSE [vec EXCEPT ![index + 1] = NULL]

-----------------------------------------------------------------------------
(* Contexts, context references and the private-data accessors *)

\* new v8_embedded_data(): a fresh heap block
NewEmbeddedData == Cardinality(DOMAIN embeddedData) + 1

LiveContexts == {c \in DOMAIN contexts : contexts[c].state = "live"}

\* persistent_ctx->Get(isolate): the v8::Context the persistent handle refers to
PersistentGet(c) == contexts[c].persistent_ctx

\* a ContextEnter that wraps the first context ever created instead of its argument
ContextEnterTargetFirst(c) == PersistentGet(1)

\* the Local<Context> a v8_context_ref is constructed with
ContextEnterTarget(c) == PersistentGet(c)

\* External::Value() of GetEmbedderData(DATA_INDEX(0)) of a v8::Context
EmbedderTable(o) == engineContexts[o][DATA_INDEX(0)]

CtxEmbeddedData(c) == EmbedderTable(PersistentGet(c))

RefEmbeddedData(r) == EmbedderTable(contextRefs[r].context)

\* what v8_GetPrivateData(ctx, index) returns
GetPrivateDataResult(c, index) == EmbeddedGet(embeddedData[CtxEmbeddedData(c)].vec, index)

\* what v8_GetPrivateDataFromCtxRef(ctx_ref, index) returns
GetPrivateDataFromCtxRefResult(r, index) ==
    EmbeddedGet(embeddedData[RefEmbeddedData(r)].vec, index)

\* the heap after embedded_data->set(index, pd) on the side-table of context c
SetPrivateDataHeap(c, index, pd) ==
    [embeddedData EXCEPT ![CtxEmbeddedData(c)].vec = EmbeddedSet(@, index, pd)]

\* the heap after embedded_data->set(index, pd) on the side-table ref r reaches
SetPrivateDataOnCtxRefHeap(r, index, pd) ==
    [embeddedData EXCEPT ![RefEmbeddedData(r)].vec = EmbeddedSet(@, index, pd)]

\* the heap after embedded_data->reset(index) on the side-table of context c
ResetPrivateDataHeap(c, index) ==
    [embeddedData EXCEPT ![CtxEmbeddedData(c)].vec = EmbeddedReset(@, index)]

\* the heap after embedded_data->reset(index) on the side-table ref r reaches
ResetPrivateDataOnCtxRefHeap(r, index) ==
    [embeddedData EXCEPT ![RefEmbeddedData(r)].vec = EmbeddedReset(@, index)]

v8_NewContext ==
    /\ Cardinality(DOMAIN contexts) < Cardinality(CtxIds)
    /\ LET c == Cardinality(DOMAIN contexts) + 1
           o == Cardinality(DOMAIN engineContexts) + 1
           t == NewEmbeddedData
       IN /\ embeddedData' = (t :> [vec |-> <<>>, deleted |-> FALSE]) @@ embeddedData
          /\ engineContexts' = (o :> (DATA_INDEX(0) :> t)) @@ engineContexts
          /\ contexts' = (c :> [isolate |-> 1, persistent_ctx |-> o, handle |-> "set",
                                state |-> "live"]) @@ contexts
          /\ slots' = (c :> [i \in Indices |-> "never"]) @@ slots
    /\ UNCHANGED <<contextRefs, refOrigin>>

v8_ContextEnter(c) ==
    /\ c \in LiveContexts
    /\ Cardinality(DOMAIN contextRefs) < MaxRef
    /\ LET r == Cardinality(DOMAIN contextRefs) + 1
       IN /\ contextRefs' = (r :> [context |-> ContextEnterTarget(c)]) @@ contextRefs
          /\ refOrigin' = (r :> c) @@ refOrigin
    /\ UNCHANGED <<contexts, engineContexts, embeddedData, slots>>

v8_SetPrivateData(c, index, pd) ==
    /\ c \in LiveContexts
    /\ pd # NULL
    /\ embeddedData' = SetPrivateDataHeap(c, index, pd)
    /\ slots' = [slots EXCEPT ![c][index] = "set"]
    /\ UNCHANGED <<contexts, engineContexts, contextRefs, refOrigin>>

v8_SetPrivateDataOnCtxRef(r, index, pd) ==
    /\ r \in DOMAIN contextRefs
    /\ refOrigin[r] \in LiveContexts
    /\ pd # NULL
    /\ embeddedData' = SetPrivateDataOnCtxRefHeap(r, index, pd)
    /\ slots' = [slots EXCEPT ![refOrigin[r]][index] = "set"]
    /\ UNCHANGED <<contexts, engineContexts, contextRefs, refOrigin>>

v8_ResetPrivateData(c, index) ==
    /\ c \in LiveContexts
    /\ embeddedData' = ResetPrivateDataHeap(c, index)
    /\ slots' = [slots EXCEPT ![c][index] = "reset"]
    /\ UNCHANGED <<contexts, engineContexts, contextRefs, refOrigin>>

v8_ResetPrivateDataOnCtxRef(r, index) ==
    /\ r \in DOMAIN contextRefs
    /\ refOrigin[r] \in LiveContexts
    /\ embeddedData' = ResetPrivateDataOnCtxRefHeap(r, index)
    /\ slots' = [slots EXCEPT ![refOrigin[r]][index] = "reset"]
    /\ UNCHANGED <<contexts, engineContexts, contextRefs, refOrigin>>

\* the getters change nothing; what they return is GetPrivateDataResult and
\* GetPrivateDataFromCtxRefResult
v8_GetPrivateData(c, index) ==
    /\ c \in LiveContexts
    /\ GetPrivateDataResult(c, index) \in Ptrs \cup {NULL}
    /\ UNCHANGED privVars

v8_GetPrivateDataFromCtxRef(r, index) ==
    /\ r \in DOMAIN contextRefs
    /\ refOrigin[r] \in LiveContexts
    /\ GetPrivateDataFromCtxRefResult(r, index) \in Ptrs \cup {NULL}
    /\ UNCHANGED privVars

-----------------------------------------------------------------------------
(* The isolate lock.  v8::Locker is recursive per thread: its constructor     *)
(* takes the isolate's mutex unless the calling thread already holds it, and  *)
(* its destructor releases the mutex only when this Locker took it.           *)
(* v8::Unlocker releases the mutex in its constructor and takes it again in   *)
(* its destructor.  Scopes and unlockers of a thread are freed in LIFO order. *)

ScopeFrame(has_lock) == [kind |-> "scope", has_lock |-> has_lock]
UnlockerFrame == [kind |-> "unlocker", has_lock |-> FALSE]

Top(stack) == stack[Len(stack)]
Pop(stack) == SubSeq(stack, 1, Len(stack) - 1)

\* a Locker that never waits for the mutex
LockerReadyNoWait(t) == TRUE

\* a Locker built on a mutex that is not recursive
LockerReadyNonRecursive(t) == lockedBy = {}

\* the Locker constructor returns once the mutex is free or already held by the caller
LockerReady(t) == t \in lockedBy \/ lockedBy = {}

\* Locker::has_lock_: whether this Locker took the mutex
LockerHasLock(t) == t \notin lockedBy

LockerLock(t) == lockedBy \cup {t}

\* a destructor that unlocks whether or not this Locker took the lock
LockerUnlockAlways(t, has_lock) == lockedBy \ {t}

LockerUnlock(t, has_lock) == IF has_lock THEN lockedBy \ {t} ELSE lockedBy

\* an Unlocker whose constructor keeps the mutex
UnlockerUnlockKeeps(t) == lockedBy

\* the Unlocker constructor releases the mutex
UnlockerUnlock(t) == lockedBy \ {t}

\* the Unlocker destructor waits until the mutex is free
UnlockerRelockReady(t) == lockedBy = {}

\* entered0 and held0 are history: the enter depth and the lock state at the call
NoFreeContextLocals ==
    [ctx |-> 0, has_lock |-> FALSE, handle_scope |-> FALSE, v8_ctx |-> NULL,
     entered0 |-> 0, held0 |-> FALSE]

\* v8_IsolateEnter, line 789: the scope block is allocated
IsolateEnterAlloc(t) ==
    /\ pc[t] = "idle"
    /\ Len(frames[t]) < MaxDepth
    /\ pc' = [pc EXCEPT ![t] = "IsolateEnter_lock"]
    /\ UNCHANGED <<lockedBy, frames, entered, fc, fcTrace>>

\* v8_IsolateEnter, line 790: the v8_isolate_scope constructor builds the Locker
IsolateEnterLock(t) ==
    /\ pc[t] = "IsolateEnter_lock"
    /\ LockerReady(t)
    /\ frames' = [frames EXCEPT ![t] = Append(@, ScopeFrame(LockerHasLock(t)))]
    /\ lockedBy' = LockerLock(t)
    /\ pc' = [pc EXCEPT ![t] = "IsolateEnter_enter"]
    /\ UNCHANGED <<entered, fc, fcTrace>>

\* v8_IsolateEnter, lines 791-792: isolate->Enter() and return
IsolateEnterEnter(t) ==
    /\ pc[t] = "IsolateEnter_enter"
    /\ entered' = [entered EXCEPT ![t] = @ + 1]
    /\ pc' = [pc EXCEPT ![t] = "idle"]
    /\ UNCHANGED <<lockedBy, frames, fc, fcTrace>>

\* v8_IsolateExit, line 796: isolate->Exit()
IsolateExitExit(t) ==
    /\ pc[t] = "idle"
    /\ frames[t] # <<>>
    /\ Top(frames[t]).kind = "scope"
    /\ entered' = [entered EXCEPT ![t] = @ - 1]
    /\ pc' = [pc EXCEPT ![t] = "IsolateExit_unlock"]
    /\ UNCHANGED <<lockedBy, frames, fc, fcTrace>>

\* v8_IsolateExit, lines 797-798: the destructor of the scope destroys the Locker
IsolateExitUnlock(t) ==
    /\ pc[t] = "IsolateExit_unlock"
    /\ lockedBy' = LockerUnlock(t, Top(frames[t]).has_lock)
    /\ frames' = [frames EXCEPT ![t] = Pop(@)]
    /\ pc' = [pc EXCEPT ![t] = "idle"]
    /\ UNCHANGED <<entered, fc, fcTrace>>

\* v8_NewUnlocker: called by a thread that is inside the isolate
v8_NewUnlocker(t) ==
    /\ pc[t] = "idle"
    /\ entered[t] > 0
    /\ t \in lockedBy
    /\ Len(frames[t]) < MaxDepth
    /\ lockedBy' = UnlockerUnlock(t)
    /\ frames' = [frames EXCEPT ![t] = Append(@, UnlockerFrame)]
    /\ UNCHANGED <<pc, entered, fc, fcTrace>>

\* v8_FreeUnlocker, line 1881: delete is called on the unlocker
FreeUnlockerCall(t) ==
    /\ pc[t] = "idle"
    /\ frames[t] # <<>>
    /\ Top(frames[t]).kind = "unlocker"
    /\ pc' = [pc EXCEPT ![t] = "FreeUnlocker_lock"]
    /\ UNCHANGED <<lockedBy, frames, entered, fc, fcTrace>>

\* v8_FreeUnlocker: the Unlocker destructor takes the mutex again, then returns
FreeUnlockerLock(t) ==
    /\ pc[t] = "FreeUnlocker_lock"
    /\ UnlockerRelockReady(t)
    /\ lockedBy' = LockerLock(t)
    /\ frames' = [frames EXCEPT ![t] = Pop(@)]
    /\ pc' = [pc EXCEPT ![t] = "idle"]
    /\ UNCHANGED <<entered, fc, fcTrace>>

-----------------------------------------------------------------------------
(* v8_FreeContext, one action per statement *)

\* an order that exits the isolate before the handle scope is closed
FcNextExitEarly(step) ==
    CASE step = "fc_call" -> "fc_lock"
      [] step = "fc_lock" -> "fc_enter"
      [] step = "fc_enter" -> "fc_open_scope"
      [] step = "fc_open_scope" -> "fc_local_ref"
      [] step = "fc_local_ref" -> "fc_delete_table"
      [] step = "fc_delete_table" -> "fc_exit"
      [] step = "fc_exit" -> "fc_close_scope"
      [] step = "fc_close_scope" -> "fc_reset_persistent"
      [] step = "fc_reset_persistent" -> "fc_delete_persistent"
      [] step = "fc_delete_persistent" -> "fc_free_wrapper"
      [] step = "fc_free_wrapper" -> "fc_unlock"
      [] step = "fc_unlock" -> "idle"

\* the statement that follows each statement of v8_FreeContext
FcNext(step) ==
    CASE step = "fc_call" -> "fc_lock"
      [] step = "fc_lock" -> "fc_enter"
      [] step = "fc_enter" -> "fc_open_scope"
      [] step = "fc_open_scope" -> "fc_local_ref"
      [] step = "fc_local_ref" -> "fc_delete_table"
      [] step = "fc_delete_table" -> "fc_close_scope"
      [] step = "fc_close_scope" -> "fc_reset_persistent"
      [] step = "fc_reset_persistent" -> "fc_delete_persistent"
      [] step = "fc_delete_persistent" -> "fc_free_wrapper"
      [] step = "fc_free_wrapper" -> "fc_exit"
      [] step = "fc_exit" -> "fc_unlock"
      [] step = "fc_unlock" -> "idle"

FcAdvance(t, step) ==
    /\ pc' = [pc EXCEPT ![t] = FcNext(step)]
    /\ fcTrace' = [fcTrace EXCEPT ![t] = Append(@, step)]

BeingFreed == {fc[t].ctx : t \in Threads} \ {0}

\* line 884: the call starts and reads ctx->isolate
FreeContextCall(t, c) ==
    /\ pc[t] = "idle"
    /\ c \in LiveContexts \ BeingFreed
    /\ fc' = [fc EXCEPT ![t] = [NoFreeContextLocals EXCEPT !.ctx = c,
                                                            !.entered0 = entered[t],
                                                            !.held0 = t \in lockedBy]]
    /\ pc' = [pc EXCEPT ![t] = FcNext("fc_call")]
    /\ fcTrace' = [fcTrace EXCEPT ![t] = <<>>]
    /\ UNCHANGED <<lockedBy, frames, entered, privVars>>

\* line 887: v8::Locker locker(isolate)
FreeContextLock(t) ==
    /\ pc[t] = "fc_lock"
    /\ LockerReady(t)
    /\ fc' = [fc EXCEPT ![t].has_lock = LockerHasLock(t)]
    /\ lockedBy' = LockerLock(t)
    /\ FcAdvance(t, "fc_lock")
    /\ UNCHANGED <<frames, entered, privVars>>

\* line 888: isolate->Enter()
FreeContextEnter(t) ==
    /\ pc[t] = "fc_enter"
    /\ entered' = [entered EXCEPT ![t] = @ + 1]
    /\ FcAdvance(t, "fc_enter")
    /\ UNCHANGED <<lockedBy, frames, fc, privVars>>

\* line 893: v8::HandleScope handler_scope(isolate)
FreeContextOpenScope(t) ==
    /\ pc[t] = "fc_open_scope"
    /\ fc' = [fc EXCEPT ![t].handle_scope = TRUE]
    /\ FcAdvance(t, "fc_open_scope")
    /\ UNCHANGED <<lockedBy, frames, entered, privVars>>

\* line 894: v8_ctx = ctx->persistent_ctx->Get(isolate); an empty handle gives no context
FreeContextLocalRef(t) ==
    /\ pc[t] = "fc_local_ref"
    /\ fc' = [fc EXCEPT ![t].v8_ctx =
                IF contexts[fc[t].ctx].handle = "set" THEN PersistentGet(fc[t].ctx)
                ELSE NULL]
    /\ FcAdvance(t, "fc_local_ref")
    /\ UNCHANGED <<lockedBy, frames, entered, privVars>>

\* lines 897-899: the side-table is read from the local context and deleted
FreeContextDeleteTable(t) ==
    /\ pc[t] = "fc_delete_table"
    /\ IF fc[t].v8_ctx \in DOMAIN engineContexts
         THEN embeddedData' =
                 [embeddedData EXCEPT ![EmbedderTable(fc[t].v8_ctx)].deleted = TRUE]
         ELSE UNCHANGED embeddedData
    /\ FcAdvance(t, "fc_delete_table")
    /\ UNCHANGED <<lockedBy, frames, entered, fc>>
    /\ UNCHANGED <<contexts, engineContexts, contextRefs, refOrigin, slots>>

\* line 900: the block ends, the handle scope is closed and its locals die
FreeContextCloseScope(t) ==
    /\ pc[t] = "fc_close_scope"
    /\ fc' = [fc EXCEPT ![t].handle_scope = FALSE, ![t].v8_ctx = NULL]
    /\ FcAdvance(t, "fc_close_scope")
    /\ UNCHANGED <<lockedBy, frames, entered, privVars>>

\* line 902: ctx->persistent_ctx->Reset()
FreeContextResetPersistent(t) ==
    /\ pc[t] = "fc_reset_persistent"
    /\ contexts' = [contexts EXCEPT ![fc[t].ctx].handle = "empty"]
    /\ FcAdvance(t, "fc_reset_persistent")
    /\ UNCHANGED <<lockedBy, frames, entered, fc>>
    /\ UNCHANGED <<engineContexts, embeddedData, contextRefs, refOrigin, slots>>

\* line 903: delete ctx->persistent_ctx
FreeContextDeletePersistent(t) ==
    /\ pc[t] = "fc_delete_persistent"
    /\ contexts' = [contexts EXCEPT ![fc[t].ctx].handle = "deleted"]
    /\ FcAdvance(t, "fc_delete_persistent")
    /\ UNCHANGED <<lockedBy, frames, entered, fc>>
    /\ UNCHANGED <<engineContexts, embeddedData, contextRefs, refOrigin, slots>>

\* line 904: V8_FREE(ctx)
FreeContextFreeWrapper(t) ==
    /\ pc[t] = "fc_free_wrapper"
    /\ contexts' = [contexts EXCEPT ![fc[t].ctx].state = "freed"]
    /\ FcAdvance(t, "fc_free_wrapper")
    /\ UNCHANGED <<lockedBy, frames, entered, fc>>
    /\ UNCHANGED <<engineContexts, embeddedData, contextRefs, refOrigin, slots>>

\* line 906: isolate->Exit()
FreeContextExit(t) ==
    /\ pc[t] = "fc_exit"
    /\ entered' = [entered EXCEPT ![t] = @ - 1]
    /\ FcAdvance(t, "fc_exit")
    /\ UNCHANGED <<lockedBy, frames, fc, privVars>>

\* line 907: the function returns and the destructor of locker runs
FreeContextUnlock(t) ==
    /\ pc[t] = "fc_unlock"
    /\ lockedBy' = LockerUnlock(t, fc[t].has_lock)
    /\ fc' = [fc EXCEPT ![t] = NoFreeContextLocals]
    /\ FcAdvance(t, "fc_unlock")
    /\ UNCHANGED <<frames, entered, privVars>>

-----------------------------------------------------------------------------
(* The pd list of the isolate: an intrusive doubly-linked list of v8_pd_node,  *)
(* one node per v8_native_function_pd record and one per near-OOM handler.     *)
(* The operators below work on a heap                                          *)
(*   H = [list, nodes, pds, calls, oomCalls, nullCalled]                       *)
(* so that v8_PDListFree can loop.  A call through a NULL function pointer is  *)
(* undefined behaviour: the model records it in nullCalled and the program     *)
(* does nothing after it.                                                      *)

PdHeap ==
    [list |-> pd_list, nodes |-> pd_nodes, pds |-> nf_pds, calls |-> deleterCalls,
     oomCalls |-> freePdCalls, nullCalled |-> nullCalled]

\* the data pointers and deleters a caller can pass
PdData == {NULL, 1}
Deleters == {"freePD"}
AnyDeleter == {"freePD", "NULL"}

\* a free of the record that deletes the weak handle without resetting it
FreeNaticeFunctionPDNoReset(H, k) ==
    IF H.pds[k].freePD = "NULL" THEN [H EXCEPT !.nullCalled = TRUE]
    ELSE [H EXCEPT !.calls[k] = @ + 1,
                   !.pds[k].freed = TRUE]

\* v8_FreeNaticeFunctionPD: call the user deleter, reset and delete the weak handle,
\* free the record; the deleter is called without a test for NULL
v8_FreeNaticeFunctionPD(H, k) ==
    IF H.pds[k].freePD = "NULL" THEN [H EXCEPT !.nullCalled = TRUE]
    ELSE [H EXCEPT !.calls[k] = @ + 1,
                   !.pds[k].weak = "reset",
                   !.pds[k].freed = TRUE]

\* node->free_data(node->data): the record free, or the free_pd of a near-OOM handler
CallFreeData(H, free_data, data) ==
    CASE free_data = "v8_FreeNaticeFunctionPD" -> v8_FreeNaticeFunctionPD(H, data)
      [] free_data = "free_pd" -> [H EXCEPT !.oomCalls[data] = @ + 1]
      [] OTHER -> H

\* the unlinking of node n and the free of its block
ListNodeUnlink(H, n) ==
    LET node == H.nodes[n]
        nodes1 == [H.nodes EXCEPT ![n].freed = TRUE]
        nodes2 == IF node.next # NULL THEN [nodes1 EXCEPT ![node.next].prev = node.prev]
                  ELSE nodes1
        nodes3 == IF node.prev # NULL THEN [nodes2 EXCEPT ![node.prev].next = node.next]
                  ELSE nodes2
    IN [H EXCEPT !.list.start = IF @ = n THEN node.next ELSE @,
                 !.list.end = IF @ = n THEN node.prev ELSE @,
                 !.nodes = nodes3]

\* a node free that unlinks the node but never calls free_data
ListNodeFreeNoCall(H, n) == ListNodeUnlink(H, n)

\* a node free that calls free_data without the test for NULL
ListNodeFreeNoTest(H, n) ==
    LET node == H.nodes[n]
        H1 == IF node.free_data = "NULL" THEN [H EXCEPT !.nullCalled = TRUE]
              ELSE CallFreeData(H, node.free_data, node.data)
    IN IF H1.nullCalled THEN H1 ELSE ListNodeUnlink(H1, n)

v8_ListNodeFree(H, n) ==
    LET node == H.nodes[n]
        H1 == IF node.free_data # "NULL" THEN CallFreeData(H, node.free_data, node.data)
              ELSE H
    IN IF H1.nullCalled THEN H1 ELSE ListNodeUnlink(H1, n)

\* an add that leaves prev of the new node unset
PDListAddNoPrev(H, n, data, free_data) ==
    LET nodes1 == IF H.list.end # NULL THEN [H.nodes EXCEPT ![H.list.end].next = n]
                  ELSE H.nodes
        new_node == [prev |-> NULL, next |-> NULL, data |-> data,
                     free_data |-> free_data, freed |-> FALSE]
    IN [H EXCEPT !.nodes = (n :> new_node) @@ nodes1,
                 !.list.end = n,
                 !.list.start = IF @ = NULL THEN n ELSE @]

v8_PDListAdd(H, n, data, free_data) ==
    LET nodes1 == IF H.list.end # NULL THEN [H.nodes EXCEPT ![H.list.end].next = n]
                  ELSE H.nodes
        new_node == [prev |-> H.list.end, next |-> NULL, data |-> data,
                     free_data |-> free_data, freed |-> FALSE]
    IN [H EXCEPT !.nodes = (n :> new_node) @@ nodes1,
                 !.list.end = n,
                 !.list.start = IF @ = NULL THEN n ELSE @]

RECURSIVE v8_PDListFree(_)
v8_PDListFree(H) ==
    IF H.list.end # NULL /\ ~H.nullCalled
      THEN v8_PDListFree(v8_ListNodeFree(H, H.list.end))
      ELSE H

SetPdHeap(H) ==
    /\ pd_list' = H.list
    /\ pd_nodes' = H.nodes
    /\ nf_pds' = H.pds
    /\ deleterCalls' = H.calls
    /\ freePdCalls' = H.oomCalls
    /\ nullCalled' = H.nullCalled

\* the isolate is live and no v8_FreeIsolate call is in progress
IsolateUsable == isolate = "live" /\ fi.pc = "idle" /\ ~nullCalled

\* the part v8_NewNativeFunctionTemplate, v8_NewNativeFunction and v8_NewExternalData
\* share: allocate the record, add it to the list, make the weak handle over its External
NewPdRecord(func, pd, freePD) ==
    /\ IsolateUsable
    /\ Cardinality(DOMAIN nf_pds) < MaxPd
    /\ LET k == Cardinality(DOMAIN nf_pds) + 1
           n == Cardinality(DOMAIN pd_nodes) + 1
           rec == [func |-> func, pd |-> pd, freePD |-> freePD, node |-> n,
                   weak |-> "weak", freed |-> FALSE]
           H0 == [PdHeap EXCEPT !.pds = (k :> rec) @@ @, !.calls = (k :> 0) @@ @]
       IN SetPdHeap(v8_PDListAdd(H0, n, k, "v8_FreeNaticeFunctionPD"))
    /\ UNCHANGED <<isolate, weakFired, near_oom, fi, isolateData>>

v8_NewNativeFunctionTemplate(pd, freePD) == NewPdRecord("template_callback", pd, freePD)

v8_NewNativeFunction(pd, freePD) == NewPdRecord("function_callback", pd, freePD)

v8_NewExternalData(data, free) == NewPdRecord("NULL", data, free)

\* v8_IsolateSetNearOOMHandler: the userdata and its free function go to the pd list
v8_IsolateSetNearOOMHandler(pd, free_pd) ==
    /\ IsolateUsable
    /\ Cardinality(DOMAIN near_oom) < MaxOom
    /\ LET j == Cardinality(DOMAIN near_oom) + 1
           n == Cardinality(DOMAIN pd_nodes) + 1
           H0 == [PdHeap EXCEPT !.oomCalls = (j :> 0) @@ @]
       IN /\ SetPdHeap(v8_PDListAdd(H0, n, j, free_pd))
          /\ near_oom' = (j :> [pd |-> pd, free_pd |-> free_pd, node |-> n]) @@ near_oom
    /\ UNCHANGED <<isolate, weakFired, fi, isolateData>>

\* the GC finds the External of record k unreachable and runs the weak callback
\* v8_FreeNativeFunctionPD with the node given to SetWeak
WeakCallback(k) ==
    /\ IsolateUsable
    /\ k \in DOMAIN nf_pds
    /\ nf_pds[k].weak = "weak"
    /\ SetPdHeap(v8_ListNodeFree(PdHeap, nf_pds[k].node))
    /\ weakFired' = weakFired \cup {k}
    /\ UNCHANGED <<isolate, near_oom, fi, isolateData>>

-----------------------------------------------------------------------------
(* v8_FreeIsolate, one action per statement *)

NoFreeIsolateLocals == [pc |-> "idle", native_data |-> NULL, allocator |-> NULL]

\* an order that disposes the isolate before the list is drained
FiNextDisposeFirst(step) ==
    CASE step = "fi_call" -> "fi_free_id"
      [] step = "fi_free_id" -> "fi_read_allocator"
      [] step = "fi_read_allocator" -> "fi_dispose"
      [] step = "fi_dispose" -> "fi_drain"
      [] step = "fi_drain" -> "fi_free_allocator"
      [] step = "fi_free_allocator" -> "returned"

\* the statement that follows each statement of v8_FreeIsolate
FiNext(step) ==
    CASE step = "fi_call" -> "fi_free_id"
      [] step = "fi_free_id" -> "fi_read_allocator"
      [] step = "fi_read_allocator" -> "fi_drain"
      [] step = "fi_drain" -> "fi_dispose"
      [] step = "fi_dispose" -> "fi_free_allocator"
      [] step = "fi_free_allocator" -> "returned"

\* lines 773-774: the call starts and reads the pd list from slot OUR_SLOT
FreeIsolateCall ==
    /\ IsolateUsable
    /\ fi' = [fi EXCEPT !.pc = FiNext("fi_call"), !.native_data = 1]
    /\ UNCHANGED <<pd_list, pd_nodes, nf_pds, isolate, deleterCalls, weakFired,
                   near_oom, freePdCalls, nullCalled, isolateData>>

\* line 775: V8_FREE of the id block
FreeIsolateFreeId ==
    /\ fi.pc = "fi_free_id"
    /\ isolateData' = [isolateData EXCEPT !.id = "freed"]
    /\ fi' = [fi EXCEPT !.pc = FiNext("fi_free_id")]
    /\ UNCHANGED <<pd_list, pd_nodes, nf_pds, isolate, deleterCalls, weakFired,
                   near_oom, freePdCalls, nullCalled>>

\* line 776: allocator = native_data->allocator
FreeIsolateReadAllocator ==
    /\ fi.pc = "fi_read_allocator"
    /\ fi' = [fi EXCEPT !.pc = FiNext("fi_read_allocator"),
                        !.allocator = IF isolateData.list = "live" THEN 1 ELSE NULL]
    /\ UNCHANGED <<pd_list, pd_nodes, nf_pds, isolate, deleterCalls, weakFired,
                   near_oom, freePdCalls, nullCalled, isolateData>>

\* line 777: v8_PDListFree(native_data): every node is freed, then the list block
FreeIsolateDrain ==
    /\ fi.pc = "fi_drain"
    /\ ~nullCalled
    /\ LET H == v8_PDListFree(PdHeap)
       IN /\ SetPdHeap(H)
          /\ isolateData' = IF H.nullCalled THEN isolateData
                            ELSE [isolateData EXCEPT !.list = "freed"]
    /\ fi' = [fi EXCEPT !.pc = FiNext("fi_drain")]
    /\ UNCHANGED <<isolate, weakFired, near_oom>>

\* line 778: isolate->Dispose()
FreeIsolateDispose ==
    /\ fi.pc = "fi_dispose"
    /\ ~nullCalled
    /\ isolate' = "disposed"
    /\ fi' = [fi EXCEPT !.pc = FiNext("fi_dispose")]
    /\ UNCHANGED <<pd_list, pd_nodes, nf_pds, deleterCalls, weakFired,
                   near_oom, freePdCalls, nullCalled, isolateData>>

\* line 779: v8_FreeAllocator(allocator)
FreeIsolateFreeAllocator ==
    /\ fi.pc = "fi_free_allocator"
    /\ ~nullCalled
    /\ isolateData' = [isolateData EXCEPT !.allocator =
                          IF fi.allocator # NULL THEN "deleted" ELSE @]
    /\ fi' = [fi EXCEPT !.pc = FiNext("fi_free_allocator")]
    /\ UNCHANGED <<pd_list, pd_nodes, nf_pds, isolate, deleterCalls, weakFired,
                   near_oom, freePdCalls, nullCalled>>

v8_FreeIsolate ==
    \/ FreeIsolateCall
    \/ FreeIsolateFreeId
    \/ FreeIsolateReadAllocator
    \/ FreeIsolateDrain
    \/ FreeIsolateDispose
    \/ FreeIsolateFreeAllocator

-----------------------------------------------------------------------------
(* Isolate ids: v8_NewIsolate, one action per statement, called by any thread, *)
(* and v8_GetIsolateId                                                         *)

NoNewIsolateLocals == [pc |-> "idle", isolate |-> NULL, isolate_id |-> NULL]

\* a post-increment that leaves the counter as it was
CounterAfterFetchStuck(counter) == counter

\* ISOLATE_ID_COUNTER++ on the atomic: the value the counter holds afterwards
CounterAfterFetch(counter) == counter + 1

\* the isolates whose v8_NewIsolate call has returned
Returned == {i \in DOMAIN isolates : \A t \in Threads : ni[t].isolate # i}

\* lines 686-689: v8::Isolate::New, every data slot of the new isolate is NULL
NewIsolateCall(t) ==
    /\ ni[t].pc = "idle"
    /\ Cardinality(DOMAIN isolates) < MaxIsolates
    /\ LET i == Cardinality(DOMAIN isolates) + 1
       IN /\ isolates' = (i :> [our_slot |-> NULL, id_ptr |-> NULL]) @@ isolates
          /\ niBefore' = (i :> Returned) @@ niBefore
          /\ ni' = [ni EXCEPT ![t] = [pc |-> "ni_set_list", isolate |-> i,
                                      isolate_id |-> NULL]]
    /\ UNCHANGED <<ISOLATE_ID_COUNTER, idBlocks>>

\* lines 691-692: the pd list is created and stored in slot OUR_SLOT
NewIsolateSetList(t) ==
    /\ ni[t].pc = "ni_set_list"
    /\ isolates' = [isolates EXCEPT ![ni[t].isolate].our_slot = 1]
    /\ ni' = [ni EXCEPT ![t].pc = "ni_alloc_id"]
    /\ UNCHANGED <<ISOLATE_ID_COUNTER, idBlocks, niBefore>>

\* line 693: V8_ALLOC of the id block
NewIsolateAllocId(t) ==
    /\ ni[t].pc = "ni_alloc_id"
    /\ LET b == Cardinality(DOMAIN idBlocks) + 1
       IN /\ idBlocks' = (b :> "uninit") @@ idBlocks
          /\ ni' = [ni EXCEPT ![t].pc = "ni_fetch_add", ![t].isolate_id = b]
    /\ UNCHANGED <<ISOLATE_ID_COUNTER, isolates, niBefore>>

\* line 694: *isolate_id = ISOLATE_ID_COUNTER++, one atomic read-modify-write
NewIsolateFetchAdd(t) ==
    /\ ni[t].pc = "ni_fetch_add"
    /\ idBlocks' = [idBlocks EXCEPT ![ni[t].isolate_id] = ISOLATE_ID_COUNTER]
    /\ ISOLATE_ID_COUNTER' = CounterAfterFetch(ISOLATE_ID_COUNTER)
    /\ ni' = [ni EXCEPT ![t].pc = "ni_set_id"]
    /\ UNCHANGED <<isolates, niBefore>>

\* line 695: the block is stored in slot ISOLATE_ID_INDEX
NewIsolateSetId(t) ==
    /\ ni[t].pc = "ni_set_id"
    /\ isolates' = [isolates EXCEPT ![ni[t].isolate].id_ptr = ni[t].isolate_id]
    /\ ni' = [ni EXCEPT ![t].pc = "ni_return"]
    /\ UNCHANGED <<ISOLATE_ID_COUNTER, idBlocks, niBefore>>

\* line 697: return
NewIsolateReturn(t) ==
    /\ ni[t].pc = "ni_return"
    /\ ni' = [ni EXCEPT ![t] = NoNewIsolateLocals]
    /\ UNCHANGED <<ISOLATE_ID_COUNTER, isolates, idBlocks, niBefore>>

\* what v8_GetIsolateId(isolate) returns
GetIsolateIdResult(i) ==
    LET id_ptr == isolates[i].id_ptr
    IN IF id_ptr = NULL THEN ISOLATE_ID_INVALID ELSE idBlocks[id_ptr]

\* v8_GetIsolateId changes nothing
v8_GetIsolateId(i) ==
    /\ i \in DOMAIN isolates
    /\ GetIsolateIdResult(i) \in Nat
    /\ UNCHANGED idVars

-----------------------------------------------------------------------------
(* The process-wide allocator and the blocks of the wrapper.  V8_ALLOC and     *)
(* V8_FREE go through the static allocator pointer; new and delete do not.     *)

\* the allocators a caller can pass to v8_Initialize; "NULL" asks for the default
AllocatorArgs == {"NULL", "alloc1", "alloc2"}

\* v8_Initialize: the static pointer is assigned on every call
v8_Initialize(alloc) ==
    /\ Len(initCalls) < MaxInit
    /\ allocator' = IF alloc # "NULL" THEN alloc ELSE "DefaultAllocator"
    /\ initCalls' = Append(initCalls, alloc)
    /\ UNCHANGED blocks

\* the blocks of the API, each with the line that allocates it and the line that
\* releases it:
\*   v8_isolate_scope 789 / 798          v8_trycatch 820 / 848
\*   v8_handlers_scope 853 / 860         v8_context 877 / 904
\*   v8_embedded_data 874 / 899          persistent_ctx 876 / 903
\*   v8_context_ref 940 / 963            v8_local_string 982 / 1009
\*   v8_native_function_pd 1029 / 225    weak 1038 / 224
\*   v8_pd_node 263 / 259                v8_pd_list 300 / 296
\*   isolate_id 693 / 775                v8_local_promise 1402 / 1408
\*   v8_local_resolver 1468 / 1474       v8_local_value 1841 / 1853
\*   v8_persisted_value 1835 / 1849      v8_unlocker 1875 / 1881
\*   v8_inspector_client_wrapper 569 / 581
AllocatedWithNew ==
    {"v8_embedded_data", "persistent_ctx", "weak", "v8_persisted_value", "v8_unlocker"}

AllocatedWithV8Alloc ==
    {"v8_isolate_scope", "v8_trycatch", "v8_handlers_scope", "v8_context",
     "v8_context_ref", "v8_local_string", "v8_native_function_pd", "v8_pd_node",
     "v8_pd_list", "isolate_id", "v8_local_promise", "v8_local_resolver",
     "v8_local_value", "v8_inspector_client_wrapper"}

ReleasedWithDelete ==
    {"v8_embedded_data", "persistent_ctx", "weak", "v8_persisted_value", "v8_unlocker",
     "v8_inspector_client_wrapper"}

BlockKinds == AllocatedWithNew \cup AllocatedWithV8Alloc

\* how the create function of a kind obtains the block
AllocOrigin(kind) == IF kind \in AllocatedWithNew THEN "new" ELSE "V8_ALLOC"

\* how the free function of a kind releases the block
FreeFunction(kind) == IF kind \in ReleasedWithDelete THEN "delete" ELSE "V8_FREE"

\* a create function of the API allocates a block of the kind
CreateBlock(kind) ==
    /\ allocator # "unset"
    /\ Cardinality(DOMAIN blocks) < MaxBlocks
    /\ LET b == Cardinality(DOMAIN blocks) + 1
           origin == AllocOrigin(kind)
       IN blocks' = (b :> [kind |-> kind, origin |-> origin,
                           allocated_by |-> IF origin = "V8_ALLOC" THEN allocator
                                            ELSE "operator new",
                           free |-> "none", released_by |-> "none"]) @@ blocks
    /\ UNCHANGED <<allocator, initCalls>>

\* the free function of the API releases block b
FreeBlock(b) ==
    /\ b \in DOMAIN blocks
    /\ blocks[b].free = "none"
    /\ LET free == FreeFunction(blocks[b].kind)
       IN blocks' = [blocks EXCEPT ![b].free = free,
                                   ![b].released_by = IF free = "V8_FREE" THEN allocator
                                                      ELSE "operator delete"]
    /\ UNCHANGED <<allocator, initCalls>>

-----------------------------------------------------------------------------
(* Promises and resolvers.  The wrapper passes every call to the engine:       *)
(* v8::Promise::Resolver::Resolve and Reject do nothing on a promise that is   *)
(* not pending; Resolve follows the promise resolution procedure: the promise  *)
(* itself as the value rejects with a TypeError, a thenable (an object with a  *)
(* callable then, another promise included) leaves the promise pending until   *)
(* the job that calls its then settles it, any other value fulfils.            *)

PlainValues == {[kind |-> "plain", id |-> 1], [kind |-> "plain", id |-> 2]}
Thenables == {[kind |-> "thenable", id |-> 1]}
PromiseValue(p) == [kind |-> "promise", id |-> p]
Undefined == [kind |-> "undefined", id |-> 0]
TypeError == [kind |-> "TypeError", id |-> 0]

\* the values a caller can pass to a resolver
JsValues == PlainValues \cup Thenables \cup {PromiseValue(p) : p \in DOMAIN promises}

\* the resolution leaves the promise pending: the value is an object with a callable then
IsThenable(v) == v.kind \in {"thenable", "promise"}

\* a mapping of the engine state that takes fulfilled for rejected
PromiseGetStateSwapped(state) ==
    CASE state = "kPending" -> "v8_PromiseState_Pending"
      [] state = "kFulfilled" -> "v8_PromiseState_Rejected"
      [] state = "kRejected" -> "v8_PromiseState_Fulfilled"
      [] OTHER -> "v8_PromiseState_Unknown"

\* the switch of v8_PromiseGetState
PromiseGetState(state) ==
    CASE state = "kPending" -> "v8_PromiseState_Pending"
      [] state = "kFulfilled" -> "v8_PromiseState_Fulfilled"
      [] state = "kRejected" -> "v8_PromiseState_Rejected"
      [] OTHER -> "v8_PromiseState_Unknown"

\* what v8_PromiseGetState returns for promise p of the heap given
PromiseGetStateIn(heap, p) == PromiseGetState(heap[p].state)

\* what v8_PromiseGetResult returns for promise p of the heap given
PromiseGetResultIn(heap, p) == heap[p].result

\* a Resolve that settles the promise whatever its state
ResolverResolveHeapAlways(p, v) ==
    [promises EXCEPT ![p] = [state |-> "kFulfilled", result |-> v]]

\* the promises after resolver->Resolve(context, v) on the resolver of promise p
ResolverResolveHeap(p, v) ==
    IF promises[p].state # "kPending" THEN promises
    ELSE IF v = PromiseValue(p)
      THEN [promises EXCEPT ![p] = [state |-> "kRejected", result |-> TypeError]]
    ELSE IF IsThenable(v) THEN promises
    ELSE [promises EXCEPT ![p] = [state |-> "kFulfilled", result |-> v]]

\* the promises after resolver->Reject(context, v) on the resolver of promise p
ResolverRejectHeap(p, v) ==
    IF promises[p].state # "kPending" THEN promises
    ELSE [promises EXCEPT ![p] = [state |-> "kRejected", result |-> v]]

\* v8_NewResolver: a resolver and its promise, pending
v8_NewResolver ==
    /\ Cardinality(DOMAIN promises) < MaxResolvers
    /\ LET p == Cardinality(DOMAIN promises) + 1
       IN /\ promises' = (p :> [state |-> "kPending", result |-> Undefined]) @@ promises
          /\ resolverCalls' = (p :> 0) @@ resolverCalls

v8_ResolverResolve(p, v) ==
    /\ p \in DOMAIN promises
    /\ resolverCalls[p] < MaxCalls
    /\ promises' = ResolverResolveHeap(p, v)
    /\ resolverCalls' = [resolverCalls EXCEPT ![p] = @ + 1]

v8_ResolverReject(p, v) ==
    /\ p \in DOMAIN promises
    /\ resolverCalls[p] < MaxCalls
    /\ promises' = ResolverRejectHeap(p, v)
    /\ resolverCalls' = [resolverCalls EXCEPT ![p] = @ + 1]

\* v8_PromiseGetState changes nothing
v8_PromiseGetState(p) ==
    /\ p \in DOMAIN promises
    /\ UNCHANGED promiseVars

\* v8_PromiseGetResult changes nothing; the engine gives a result once the promise is
\* not pending
v8_PromiseGetResult(p) ==
    /\ p \in DOMAIN promises
    /\ promises[p].state # "kPending"
    /\ UNCHANGED promiseVars

-----------------------------------------------------------------------------
(* Handle scopes, local values and persisted values.  A v8_handlers_scope      *)
(* holds a v8::HandleScope: its constructor saves the top of the engine's      *)
(* stack of handle slots, its destructor restores it.  A v8::Local points to   *)
(* a slot of that stack; a v8::Persistent is a handle outside the stack.  The  *)
(* engine requires handle scopes to be closed innermost first, so              *)
(* v8_FreeHandlersScope is modelled for the innermost open scope.              *)

\* the numbers a value is created from
Numbers == {1, 2}

\* the local l points to a slot of the handle stack hs that still holds its handle
ValidIn(hs, l) == l.slot <= Len(hs) /\ hs[l.slot].hid = l.hid

\* the engine value a valid local denotes
Denotes(l) == handles[l.slot].value

InnermostScope == scopes[Len(scopes)]

\* v8_handlers_scope(isolate): the scope saves the top of the handle stack
v8_NewHandlersScope ==
    /\ scopeCount < MaxScopes
    /\ scopes' = Append(scopes, [prev_next |-> Len(handles), sid |-> scopeCount + 1])
    /\ scopeCount' = scopeCount + 1
    /\ UNCHANGED <<handles, locals, persisted>>

\* a destructor that releases every slot of the stack
HandlesAfterFreeAll == <<>>

\* the handle stack after ~v8_handlers_scope() of the innermost scope
HandlesAfterFree == SubSeq(handles, 1, InnermostScope.prev_next)

v8_FreeHandlersScope ==
    /\ Len(scopes) > 0
    /\ handles' = HandlesAfterFree
    /\ scopes' = SubSeq(scopes, 1, Len(scopes) - 1)
    /\ UNCHANGED <<scopeCount, locals, persisted>>

\* a v8_local_value constructed in the innermost scope for an engine value
CreateLocal(value, from) ==
    /\ Len(scopes) > 0
    /\ Len(locals) < MaxLocals
    /\ handles' = Append(handles, [value |-> value, hid |-> Len(locals) + 1])
    /\ locals' = Append(locals, [slot |-> Len(handles) + 1, hid |-> Len(locals) + 1,
                                 sid |-> InnermostScope.sid, val |-> value, from |-> from])

v8_ValueFromDouble(val) ==
    /\ CreateLocal(val, NULL)
    /\ UNCHANGED <<scopes, scopeCount, persisted>>

\* new v8::Persistent<v8::Value>(isolate, val->val)
v8_PersistValue(l) ==
    /\ l \in DOMAIN locals
    /\ ValidIn(handles, locals[l])
    /\ Len(persisted) < MaxPersisted
    /\ persisted' = Append(persisted, [value |-> Denotes(locals[l]), of |-> l,
                                       state |-> "live", freedBy |-> "none"])
    /\ UNCHANGED <<handles, scopes, scopeCount, locals>>

\* a conversion that moves the value out of the persisted handle
PersistedAfterToLocalMoved(p) ==
    [persisted EXCEPT ![p].state = "reset"]

\* the persisted values after v8::Local<v8::Value>::New(isolate, *value)
PersistedAfterToLocal(p) == persisted

v8_PersistedValueToLocal(p) ==
    /\ p \in DOMAIN persisted
    /\ persisted[p].state = "live"
    /\ CreateLocal(persisted[p].value, p)
    /\ persisted' = PersistedAfterToLocal(p)
    /\ UNCHANGED <<scopes, scopeCount>>

\* persisted_val->Reset(); delete persisted_val
v8_FreePersistedValue(p) ==
    /\ p \in DOMAIN persisted
    /\ persisted[p].state = "live"
    /\ persisted' = [persisted EXCEPT ![p].state = "reset",
                                      ![p].freedBy = "v8_FreePersistedValue"]
    /\ UNCHANGED <<handles, scopes, scopeCount, locals>>

-----------------------------------------------------------------------------
(* Wrapper functions over an engine call that can fail.  The engine reports    *)
(* failure as an empty v8::MaybeLocal or a v8::Maybe holding nothing;          *)
(* ToLocalChecked on an empty v8::MaybeLocal is a fatal error of the engine,   *)
(* which aborts the process.  A result is [returned, ret]: ret is a pointer    *)
(* (NULL or the address of the block allocated) or an int.                     *)

\* the outcomes of an engine call returning v8::MaybeLocal
MaybeLocalOutcomes == {"value", "empty"}

\* the outcomes of an engine call returning v8::Maybe<bool>
MaybeBoolOutcomes == {"Nothing", "JustFalse", "JustTrue"}

\* the address of a block a wrapper function returns
Block == 1

Aborts == [returned |-> FALSE, ret |-> NULL]
Returns(ret) == [returned |-> TRUE, ret |-> ret]

\* v8::MaybeLocal::ToLocalChecked, then the block is allocated and returned
ToLocalCheckedThenReturn(outcome) ==
    IF outcome = "empty" THEN Aborts ELSE Returns(Block)

\* if (x.IsEmpty()) return NULL; then the block is allocated and returned
NullIfEmpty(outcome) ==
    IF outcome = "empty" THEN Returns(NULL) ELSE Returns(Block)

\* v8_NewString: v8::String::NewFromUtf8(...).ToLocalChecked() in the constructor
NewStringResult(outcome) == ToLocalCheckedThenReturn(outcome)

\* func->func->GetFunction(ctx_ref->context).ToLocalChecked()
NativeFunctionTemplateToFunctionResult(outcome) == ToLocalCheckedThenReturn(outcome)

\* v8::Function::New(ctx_ref->context, v8_NativeBaseFunction, data).ToLocalChecked()
NewNativeFunctionResult(outcome) == ToLocalCheckedThenReturn(outcome)

\* obj->obj->NewInstance(ctx_ref->context).ToLocalChecked()
ObjectTemplateNewInstanceResult(outcome) == ToLocalCheckedThenReturn(outcome)

\* v8::Promise::Resolver::New(ctx_ref->context).ToLocalChecked()
NewResolverResult(outcome) == ToLocalCheckedThenReturn(outcome)

\* v8_Compile: the constructor leaves script empty when the compilation failed
CompileResult(outcome) == NullIfEmpty(outcome)

\* v8_Run: if (result.IsEmpty()) return NULL
RunResult(outcome) == NullIfEmpty(outcome)

\* v8_InitiateModule: return res.IsNothing() ? 0 : 1
InitiateModuleResult(res) == IF res = "Nothing" THEN Returns(0) ELSE Returns(1)

\* a call of the wrapper function op whose engine call has the outcome given
WrapperCall(op, outcome, result) ==
    /\ process = "running"
    /\ Len(callLog) < MaxCallLog
    /\ callLog' = Append(callLog, [op |-> op, outcome |-> outcome,
                                   returned |-> result.returned, ret |-> result.ret])
    /\ process' = IF result.returned THEN "running" ELSE "aborted"

-----------------------------------------------------------------------------
(* Termination of a running script.  isolate->TerminateExecution() leaves a    *)
(* request that the running script sees at its next stack check (function     *)
(* entry, loop back edge): the script is unwound by an exception no handler    *)
(* catches, Run returns an empty result and the v8::TryCatch reports           *)
(* HasTerminated.  isolate->CancelTerminateExecution() drops the request.      *)
(* A script is a loop that never ends or runs a bounded number of steps.       *)

ScriptKinds == {"loop", "finite"}

NoRun == [pc |-> "idle", kind |-> "none", steps |-> 0]

\* what the other thread did: calls since the run began, and before it
NoTermination ==
    [terminateCalls |-> 0, cancelCalls |-> 0, requestedInRun |-> FALSE,
     cancelledInRun |-> FALSE, cancelsBeforeRun |-> 0, terminateAfterCancel |-> FALSE]

\* script->script->Run(v8_ctx_ref->context) begins; the calling thread holds the lock
RunCall(kind) ==
    /\ run.pc = "idle"
    /\ Len(runLog) < MaxRuns
    /\ run' = [pc |-> "running", kind |-> kind, steps |-> IF kind = "finite" THEN MaxSteps ELSE 0]
    /\ termination' = [termination EXCEPT !.requestedInRun = FALSE, !.cancelledInRun = FALSE]
    /\ UNCHANGED <<terminate_requested, runLog>>

\* v8_Run returns: NULL for an empty result; v8_TryCatchHasTerminated is read then
RunReturn(result, has_terminated) ==
    /\ run' = NoRun
    /\ runLog' = Append(runLog,
          [ret |-> RunResult(result).ret, has_terminated |-> has_terminated,
           kind |-> run.kind,
           requestedInRun |-> termination.requestedInRun,
           cancelledInRun |-> termination.cancelledInRun,
           cancelsBeforeRun |-> termination.cancelsBeforeRun,
           terminateAfterCancel |-> termination.terminateAfterCancel])
    /\ termination' = [termination EXCEPT !.cancelsBeforeRun = 0]

\* a stack check of the running script: a pending request terminates the script, and
\* the engine may or may not keep the request once it has acted on it
StackCheck ==
    /\ run.pc = "running"
    /\ IF terminate_requested
         THEN /\ RunReturn("empty", TRUE)
              /\ terminate_requested' \in BOOLEAN
         ELSE /\ run' = [run EXCEPT !.steps = IF @ > 0 THEN @ - 1 ELSE 0]
              /\ UNCHANGED <<terminate_requested, termination, runLog>>

\* a script with no step left completes: no stack check is made on the way out
RunCompletes ==
    /\ run.pc = "running"
    /\ run.kind = "finite"
    /\ run.steps = 0
    /\ RunReturn("value", FALSE)
    /\ UNCHANGED terminate_requested

\* v8_TerminateCurrExecution, from a thread that does not hold the lock
v8_TerminateCurrExecution ==
    /\ termination.terminateCalls < MaxTerminate
    /\ terminate_requested' = TRUE
    /\ termination' = [termination EXCEPT !.terminateCalls = @ + 1,
                                          !.requestedInRun = @ \/ run.pc = "running",
                                          !.terminateAfterCancel = TRUE]
    /\ UNCHANGED <<run, runLog>>

\* a v8_CancelTerminateExecution that leaves the request
CancelTerminateExecutionKeeps == terminate_requested

\* the pending request after isolate->CancelTerminateExecution()
CancelTerminateExecution == FALSE

v8_CancelTerminateExecution ==
    /\ termination.cancelCalls < MaxCancel
    /\ terminate_requested' = CancelTerminateExecution
    /\ termination' = [termination EXCEPT !.cancelCalls = @ + 1,
                                          !.cancelledInRun = @ \/ run.pc = "running",
                                          !.cancelsBeforeRun = IF run.pc = "idle" THEN @ + 1 ELSE @,
                                          !.terminateAfterCancel = FALSE]
    /\ UNCHANGED <<run, runLog>>

-----------------------------------------------------------------------------
(* The pd list under the isolate lock.  None of the functions that add to the  *)
(* list or drain it takes or tests the lock: the thread that calls them holds  *)
(* it or not.  The weak callback runs in a garbage collection, on a thread     *)
(* that is inside the isolate.                                                 *)

\* the mutation op of the pd list by thread t is recorded with the state of the lock
LogMutation(op, t) ==
    lastMutation' = [op |-> op, thread |-> t, held |-> t \in lockedBy]

NoMutation == [op |-> "none", thread |-> 0, held |-> TRUE]

\* thread t is between two calls and is not the thread inside v8_FreeIsolate
Idle(t) == pc[t] = "idle" /\ t # fiCaller

\* thread t calls one of the four functions that add a node to the list
PdInsertBy(t) ==
    /\ Idle(t)
    /\ Cardinality(DOMAIN pd_nodes) < MaxPd
    /\ \/ /\ v8_NewNativeFunctionTemplate(1, "freePD")
          /\ LogMutation("v8_NewNativeFunctionTemplate", t)
       \/ v8_NewNativeFunction(1, "freePD") /\ LogMutation("v8_NewNativeFunction", t)
       \/ v8_NewExternalData(1, "freePD") /\ LogMutation("v8_NewExternalData", t)
       \/ v8_IsolateSetNearOOMHandler(1, "free_pd") /\ LogMutation("v8_IsolateSetNearOOMHandler", t)
    /\ UNCHANGED fiCaller

\* a garbage collection on thread t, inside the isolate, runs the weak callback of k
WeakCallbackBy(t, k) ==
    /\ Idle(t)
    /\ entered[t] > 0 /\ t \in lockedBy
    /\ WeakCallback(k)
    /\ LogMutation("v8_FreeNativeFunctionPD", t)
    /\ UNCHANGED fiCaller

\* thread t, which is not inside the isolate, calls v8_FreeIsolate
FreeIsolateCallBy(t) ==
    /\ Idle(t)
    /\ fiCaller = 0
    /\ entered[t] = 0
    /\ FreeIsolateCall
    /\ fiCaller' = t
    /\ UNCHANGED lastMutation

\* the calling thread goes on in v8_FreeIsolate; v8_PDListFree mutates the list
FreeIsolateStepBy ==
    /\ fiCaller # 0
    /\ \/ FreeIsolateFreeId /\ UNCHANGED lastMutation
       \/ FreeIsolateReadAllocator /\ UNCHANGED lastMutation
       \/ FreeIsolateDrain /\ LogMutation("v8_FreeIsolate", fiCaller)
       \/ FreeIsolateDispose /\ UNCHANGED lastMutation
       \/ FreeIsolateFreeAllocator /\ UNCHANGED lastMutation
    /\ UNCHANGED fiCaller

\* a step of v8_IsolateEnter or v8_IsolateExit by thread t
EnterOrExitBy(t) ==
    /\ t # fiCaller
    /\ \/ IsolateEnterAlloc(t)
       \/ IsolateEnterLock(t)
       \/ IsolateEnterEnter(t)
       \/ IsolateExitExit(t)
       \/ IsolateExitUnlock(t)
    /\ UNCHANGED <<fiCaller, lastMutation>>

-----------------------------------------------------------------------------
(* The trampoline v8_NativeBaseFunction.  The engine calls it for a native     *)
(* function with the External made at creation as info.Data(); the user        *)
(* callback returns NULL or a v8_local_value block it allocated.               *)

NoCall ==
    [k |-> 0, argc |-> 0, func |-> "none", pd |-> NULL, len |-> 0, val |-> NULL,
     return_value |-> [set |-> FALSE, value |-> 0], frees |-> 0]

\* a trampoline that leaves the block to the callback
TrampolineFreesNone(val) == 0

\* the number of V8_FREE(val) calls the trampoline makes for the callback's result
TrampolineFrees(val) == IF val # NULL THEN 1 ELSE 0

\* info.GetReturnValue() after the trampoline, for the callback's result
TrampolineReturnValue(val, value) ==
    IF val # NULL THEN [set |-> TRUE, value |-> value] ELSE [set |-> FALSE, value |-> 0]

\* the engine calls the function of record k with argc arguments; the callback returns
\* NULL (value = 0) or a new block holding value
v8_NativeBaseFunction(k, argc, value) ==
    /\ IsolateUsable
    /\ k \in DOMAIN nf_pds
    /\ nf_pds[k].func # "NULL"
    /\ ~nf_pds[k].freed
    /\ value # 0 => Len(wrappers) < MaxWrappers
    /\ LET nf_pd == nf_pds[k]
           val == IF value = 0 THEN NULL ELSE Len(wrappers) + 1
       IN /\ wrappers' = IF val = NULL THEN wrappers
                         ELSE Append(wrappers, [value |-> value, frees |-> TrampolineFrees(val)])
          /\ lastCall' = [k |-> k, argc |-> argc, func |-> nf_pd.func, pd |-> nf_pd.pd,
                          len |-> argc, val |-> val,
                          return_value |-> TrampolineReturnValue(val, value),
                          frees |-> TrampolineFrees(val)]
    /\ UNCHANGED pdVars

-----------------------------------------------------------------------------
(* Persisted handles as roots of the garbage collector.  A v8::Persistent made *)
(* by one of the four Persist functions is a root for its object until         *)
(* Reset(); its destructor does not reset it.  A garbage collection frees      *)
(* every object that neither a local handle of an open scope nor a persistent  *)
(* handle roots.                                                               *)

PersistedKinds == {"value", "script", "module", "object_template"}

\* a Free function that deletes the block and never resets the handle
FreeStepsDeleteOnly(kind) == <<"delete">>

\* the statements of the Free function of each kind, in order
FreeSteps(kind) ==
    CASE kind = "value" -> <<"Reset", "delete">>
      [] kind = "script" -> <<"Reset", "delete">>
      [] kind = "module" -> <<"Reset", "delete">>
      [] kind = "object_template" -> <<"Reset", "delete">>

\* the objects a persistent handle roots
PersistentRoots == {persistents[p].obj : p \in {q \in DOMAIN persistents : persistents[q].root}}

\* a local of the kind given is created in the open handle scope
NewLocalObject(kind) ==
    /\ Len(objects) < MaxObjects
    /\ objects' = Append(objects, [kind |-> kind, alive |-> TRUE])
    /\ localRoots' = localRoots \cup {Len(objects) + 1}
    /\ UNCHANGED persistents

\* v8_PersistValue, v8_ScriptPersist, v8_ModulePersist, v8_ObjectTemplatePersist:
\* new v8::Persistent<T>(isolate, local)
PersistObject(o) ==
    /\ o \in localRoots
    /\ Len(persistents) < MaxPersistents
    /\ persistents' = Append(persistents,
          [kind |-> objects[o].kind, obj |-> o, block |-> "allocated", root |-> TRUE,
           trace |-> <<>>])
    /\ UNCHANGED <<objects, localRoots>>

\* the ToLocal function of the kind: v8::Local<T>::New(isolate, *persistent)
PersistedToLocal(p) ==
    /\ p \in DOMAIN persistents
    /\ persistents[p].block = "allocated" /\ persistents[p].trace = <<>>
    /\ localRoots' = localRoots \cup {persistents[p].obj}
    /\ UNCHANGED <<objects, persistents>>

\* the handle scope is closed and a new one opened: its locals root nothing any more
CloseHandleScope ==
    /\ localRoots # {}
    /\ localRoots' = {}
    /\ UNCHANGED <<objects, persistents>>

\* a garbage collection
CollectGarbage ==
    /\ objects' = [o \in DOMAIN objects |->
                     [objects[o] EXCEPT !.alive = @ /\ o \in localRoots \cup PersistentRoots]]
    /\ UNCHANGED <<localRoots, persistents>>

\* the next statement of the Free function of the kind of p
FreePersistedStep(p) ==
    /\ p \in DOMAIN persistents
    /\ LET h == persistents[p]
           i == Len(h.trace) + 1
       IN /\ i <= Len(FreeSteps(h.kind))
          /\ persistents' =
                [persistents EXCEPT ![p] =
                    [h EXCEPT !.root = IF FreeSteps(h.kind)[i] = "Reset" THEN FALSE ELSE @,
                              !.block = IF FreeSteps(h.kind)[i] = "delete" THEN "deleted" ELSE @,
                              !.trace = Append(@, FreeSteps(h.kind)[i])]]
    /\ UNCHANGED <<objects, localRoots>>

-----------------------------------------------------------------------------
(* The inspector client.  While the engine is paused it calls                  *)
(* runMessageLoopOnPause, which asks the wait callback for front-end messages  *)
(* and pumps the platform's message loop; the engine calls                     *)
(* quitMessageLoopOnPause when the debugger resumes, and may call              *)
(* runMessageLoopOnPause again while a message is dispatched.                  *)

\* the callbacks a user can pass: NULL or a function
UserCallbacks == {NULL, 1}

\* a std::function holding nothing
EmptyFunction == [empty |-> TRUE, fn |-> NULL]

\* the lambda v8_InspectorCreate makes for the callback fn without testing it
CreateWrapper(fn) == [empty |-> FALSE, fn |-> fn]

\* the std::function the Set functions make for the callback fn
SetWrapper(fn) == IF fn # NULL THEN [empty |-> FALSE, fn |-> fn] ELSE EmptyFunction

NoPauseLog == [quit |-> FALSE, zero |-> FALSE, waits |-> 0, nested |-> 0, fn |-> NULL]

PauseTop == pauseFrames[Len(pauseFrames)]

PauseCrashed == pauseFrames # <<>> /\ PauseTop = "crashed"

\* the body of runMessageLoopOnPause past its loop, and the return
PauseLoopExit ==
    /\ terminated_' = TRUE
    /\ run_nested_loop_' = FALSE
    /\ pauseFrames' = SubSeq(pauseFrames, 1, Len(pauseFrames) - 1)

\* the first statement of runMessageLoopOnPause: does the call return at once?
RunMessageLoopReturnsAtOnce(run_nested_loop) == run_nested_loop

\* the engine calls runMessageLoopOnPause: at a pause, or again while the loop of a
\* pause is in the wait callback or pumps messages
runMessageLoopOnPause ==
    /\ inspectorCreated /\ ~PauseCrashed
    /\ pauseFrames # <<>> => PauseTop \in {"callback", "pump"} /\ pauseLog.nested < MaxNested
    /\ IF RunMessageLoopReturnsAtOnce(run_nested_loop_)
       THEN UNCHANGED <<terminated_, run_nested_loop_, pauseFrames>>
       ELSE /\ terminated_' = FALSE
            /\ run_nested_loop_' = TRUE
            /\ pauseFrames' = Append(pauseFrames, "test")
    /\ pauseLog' = IF pauseFrames = <<>>
                   THEN [pauseLog EXCEPT !.quit = FALSE, !.zero = FALSE]
                   ELSE [pauseLog EXCEPT !.nested = @ + 1]
    /\ UNCHANGED <<onWaitFrontendMessageOnPause_, inspectorCreated>>

\* the condition of the while loop, up to the call of the wait callback: a callback
\* that is a NULL pointer inside the lambda of v8_InspectorCreate is called all the same
PauseLoopTest ==
    /\ pauseFrames # <<>> /\ PauseTop = "test"
    /\ IF ~terminated_ /\ ~onWaitFrontendMessageOnPause_.empty
       THEN /\ pauseLog.waits < MaxWaits
            /\ pauseFrames' = [pauseFrames EXCEPT ![Len(pauseFrames)] =
                                  IF onWaitFrontendMessageOnPause_.fn = NULL
                                  THEN "crashed" ELSE "callback"]
            /\ pauseLog' = [pauseLog EXCEPT !.waits = @ + 1,
                                            !.fn = onWaitFrontendMessageOnPause_.fn]
            /\ UNCHANGED <<terminated_, run_nested_loop_>>
       ELSE /\ PauseLoopExit
            /\ UNCHANGED pauseLog
    /\ UNCHANGED <<onWaitFrontendMessageOnPause_, inspectorCreated>>

\* the wait callback returns res: 0 ends the loop, another value goes on to the pump
WaitCallbackReturns(res) ==
    /\ pauseFrames # <<>> /\ PauseTop = "callback"
    /\ IF res = 0
       THEN /\ PauseLoopExit
            /\ pauseLog' = [pauseLog EXCEPT !.zero = TRUE]
       ELSE /\ pauseFrames' = [pauseFrames EXCEPT ![Len(pauseFrames)] = "pump"]
            /\ UNCHANGED <<terminated_, run_nested_loop_, pauseLog>>
    /\ UNCHANGED <<onWaitFrontendMessageOnPause_, inspectorCreated>>

\* v8::platform::PumpMessageLoop has no more messages
PumpMessageLoopDone ==
    /\ pauseFrames # <<>> /\ PauseTop = "pump"
    /\ pauseFrames' = [pauseFrames EXCEPT ![Len(pauseFrames)] = "test"]
    /\ UNCHANGED <<onWaitFrontendMessageOnPause_, terminated_, run_nested_loop_, pauseLog,
                   inspectorCreated>>

\* terminated_ after quitMessageLoopOnPause
QuitTerminated(terminated) == TRUE

\* the engine calls quitMessageLoopOnPause: the debugger resumes
quitMessageLoopOnPause ==
    /\ inspectorCreated /\ ~PauseCrashed
    /\ pauseFrames # <<>> => PauseTop \in {"callback", "pump"}
    /\ terminated_' = QuitTerminated(terminated_)
    /\ pauseLog' = IF pauseFrames # <<>> THEN [pauseLog EXCEPT !.quit = TRUE] ELSE pauseLog
    /\ UNCHANGED <<onWaitFrontendMessageOnPause_, run_nested_loop_, pauseFrames,
                   inspectorCreated>>

\* the user installs the wait callback fn, or none with NULL, outside the callback
v8_InspectorSetOnWaitFrontendMessageOnPauseCallback(fn) ==
    /\ inspectorCreated /\ ~PauseCrashed
    /\ pauseFrames # <<>> => PauseTop = "pump"
    /\ onWaitFrontendMessageOnPause_' = SetWrapper(fn)
    /\ UNCHANGED <<terminated_, run_nested_loop_, pauseFrames, pauseLog, inspectorCreated>>

-----------------------------------------------------------------------------
(* The inspector channel.  The session sends responses and notifications to    *)
(* the channel, which hands them to the on-response callback; the callback and *)
(* the deleter of its user data are installed by v8_InspectorCreate            *)
(* (installation 0) and replaced by v8_InspectorSetOnResponseCallback.         *)

\* a std::function of the channel holding nothing
NoFunction == [empty |-> TRUE, fn |-> NULL, inst |-> 0]

\* the on-response lambda v8_InspectorCreate makes without testing the pointer
CreateOnResponse(fn) == [empty |-> FALSE, fn |-> fn, inst |-> 0]

\* the on-response and deleter lambdas made under a test of the pointer
WrapIfSet(fn, inst) == IF fn # NULL THEN [empty |-> FALSE, fn |-> fn, inst |-> inst] ELSE NoFunction

NoResponse == [count |-> 0, kind |-> "none", outcome |-> "none", inst |-> 0]

\* a setOnResponseCallback that stores first and then runs the deleter it holds
SetOnResponseStepsStoreFirst(old_deleter, deleter, inst) ==
    <<[op |-> "store", inst |-> inst]>>
        \o (IF ~deleter.empty THEN <<[op |-> "deleter", inst |-> deleter.inst]>> ELSE <<>>)

\* the steps of v8_inspector_channel_wrapper::setOnResponseCallback, in order
SetOnResponseSteps(old_deleter, deleter, inst) ==
    (IF ~old_deleter.empty THEN <<[op |-> "deleter", inst |-> old_deleter.inst]>> ELSE <<>>)
        \o <<[op |-> "store", inst |-> inst]>>

\* the user replaces the on-response callback and the deleter of its user data
v8_InspectorSetOnResponseCallback(onResponse, deleter) ==
    /\ inspectorCreated
    /\ lastResponse.outcome # "crashed"
    /\ installs < MaxInstalls
    /\ LET inst == installs + 1
           onResponseWrapper == WrapIfSet(onResponse, inst)
           onDelete == WrapIfSet(deleter, inst)
           steps == SetOnResponseSteps(onResponseUserDataDeleter_, onDelete, inst)
       IN /\ installs' = inst
          /\ lastSet' = steps
          /\ respDeleterCalls' =
                [i \in DOMAIN respDeleterCalls |->
                    respDeleterCalls[i]
                      + Cardinality({k \in DOMAIN steps :
                                        steps[k].op = "deleter" /\ steps[k].inst = i})]
          /\ onResponse_' = onResponseWrapper
          /\ onResponseUserDataDeleter_' = onDelete
    /\ UNCHANGED lastResponse

\* sendResponse and sendNotification: the message goes to onResponse_ if it holds a
\* function; the lambda of v8_InspectorCreate around a NULL pointer calls it all the same
ChannelSend(kind) ==
    /\ inspectorCreated
    /\ lastResponse.outcome # "crashed"
    /\ lastResponse.count < MaxResponses
    /\ lastResponse' =
          [count |-> lastResponse.count + 1,
           kind |-> kind,
           outcome |-> IF onResponse_.empty THEN "dropped"
                       ELSE IF onResponse_.fn = NULL THEN "crashed" ELSE "delivered",
           inst |-> onResponse_.inst]
    /\ UNCHANGED <<onResponse_, onResponseUserDataDeleter_, installs, respDeleterCalls, lastSet>>

\* v8_InspectorCreate: the constructors store the lambdas made for the pointers given;
\* the two callbacks are wrapped untested, the deleters under a test
v8_InspectorCreate(onResponse, onResponseUserDataDeleter, onWaitFrontendMessageOnPause) ==
    /\ ~inspectorCreated
    /\ inspectorCreated' = TRUE
    /\ onResponse_' = CreateOnResponse(onResponse)
    /\ onResponseUserDataDeleter_' = WrapIfSet(onResponseUserDataDeleter, 0)
    /\ onWaitFrontendMessageOnPause_' = CreateWrapper(onWaitFrontendMessageOnPause)
    /\ terminated_' = TRUE
    /\ run_nested_loop_' = FALSE
    /\ UNCHANGED <<pauseFrames, pauseLog, installs, respDeleterCalls, lastSet, lastResponse>>

sendResponse == ChannelSend("response")

sendNotification == ChannelSend("notification")

-----------------------------------------------------------------------------
(* The state after v8_Initialize and v8_NewIsolate: one isolate, no context, *)
(* no thread inside the isolate, an empty pd list                           *)

InitPriv ==
    /\ contexts = <<>>
    /\ engineContexts = <<>>
    /\ embeddedData = <<>>
    /\ contextRefs = <<>>
    /\ refOrigin = <<>>
    /\ slots = <<>>

InitLock ==
    /\ lockedBy = {}
    /\ pc = [t \in Threads |-> "idle"]
    /\ frames = [t \in Threads |-> <<>>]
    /\ entered = [t \in Threads |-> 0]
    /\ fc = [t \in Threads |-> NoFreeContextLocals]
    /\ fcTrace = [t \in Threads |-> <<>>]

InitPD ==
    /\ pd_list = [start |-> NULL, end |-> NULL]
    /\ pd_nodes = <<>>
    /\ nf_pds = <<>>
    /\ isolate = "live"
    /\ deleterCalls = <<>>
    /\ weakFired = {}
    /\ near_oom = <<>>
    /\ freePdCalls = <<>>
    /\ nullCalled = FALSE
    /\ fi = NoFreeIsolateLocals
    /\ isolateData = [id |-> "live", list |-> "live", allocator |-> "live"]

\* the state before any v8_NewIsolate call: the counter holds its initial value
InitIds ==
    /\ ISOLATE_ID_COUNTER = 1
    /\ isolates = <<>>
    /\ idBlocks = <<>>
    /\ ni = [t \in Threads |-> NoNewIsolateLocals]
    /\ niBefore = <<>>

\* the state before v8_Initialize: the static allocator pointer is zero-initialised
InitAlloc ==
    /\ allocator = "unset"
    /\ initCalls = <<>>
    /\ blocks = <<>>

\* no resolver created yet
InitPromise ==
    /\ promises = <<>>
    /\ resolverCalls = <<>>

\* no handle scope is open, no value was created
InitHandles ==
    /\ handles = <<>>
    /\ scopes = <<>>
    /\ scopeCount = 0
    /\ locals = <<>>
    /\ persisted = <<>>

\* the process runs, no call was made
InitCalls ==
    /\ process = "running"
    /\ callLog = <<>>

\* no script runs, no termination is requested
InitTerm ==
    /\ run = NoRun
    /\ terminate_requested = FALSE
    /\ termination = NoTermination
    /\ runLog = <<>>

\* no thread is inside v8_FreeIsolate, the list was not mutated
InitPdLock ==
    /\ fiCaller = 0
    /\ lastMutation = NoMutation

\* no native function was called
InitTramp ==
    /\ wrappers = <<>>
    /\ lastCall = NoCall

\* no object, no persistent handle
InitRoots ==
    /\ objects = <<>>
    /\ localRoots = {}
    /\ persistents = <<>>

\* no inspector yet
InitPause ==
    /\ inspectorCreated = FALSE
    /\ onWaitFrontendMessageOnPause_ = EmptyFunction
    /\ terminated_ = TRUE
    /\ run_nested_loop_ = FALSE
    /\ pauseFrames = <<>>
    /\ pauseLog = NoPauseLog

\* no channel yet
InitResp ==
    /\ onResponse_ = NoFunction
    /\ onResponseUserDataDeleter_ = NoFunction
    /\ installs = 0
    /\ respDeleterCalls = [i \in 0..MaxInstalls |-> 0]
    /\ lastSet = <<>>
    /\ lastResponse = NoResponse

Init ==
    /\ InitPriv /\ InitLock /\ InitPD /\ InitIds /\ InitAlloc /\ InitPromise /\ InitHandles
    /\ InitCalls /\ InitTerm /\ InitPdLock
    /\ InitTramp /\ InitRoots /\ InitPause
    /\ InitResp

NextPriv ==
    \/ v8_NewContext /\ UNCHANGED <<lockVars, pdVars, moreVars>>
    \/ \E c \in CtxIds : v8_ContextEnter(c) /\ UNCHANGED <<lockVars, pdVars, moreVars>>
    \/ \E c \in CtxIds, i \in Indices, p \in Ptrs :
          v8_SetPrivateData(c, i, p) /\ UNCHANGED <<lockVars, pdVars, moreVars>>
    \/ \E r \in 1..MaxRef, i \in Indices, p \in Ptrs :
          v8_SetPrivateDataOnCtxRef(r, i, p) /\ UNCHANGED <<lockVars, pdVars, moreVars>>
    \/ \E c \in CtxIds, i \in Indices :
          v8_ResetPrivateData(c, i) /\ UNCHANGED <<lockVars, pdVars, moreVars>>
    \/ \E r \in 1..MaxRef, i \in Indices :
          v8_ResetPrivateDataOnCtxRef(r, i) /\ UNCHANGED <<lockVars, pdVars, moreVars>>
    \/ \E c \in CtxIds, i \in Indices :
          v8_GetPrivateData(c, i) /\ UNCHANGED <<lockVars, pdVars, moreVars>>
    \/ \E r \in 1..MaxRef, i \in Indices :
          v8_GetPrivateDataFromCtxRef(r, i) /\ UNCHANGED <<lockVars, pdVars, moreVars>>

SpecPriv == Init /\ [][NextPriv]_vars

NextLock ==
    \/ v8_NewContext /\ UNCHANGED <<lockVars, pdVars, moreVars>>
    \/ \E t \in Threads : IsolateEnterAlloc(t) /\ UNCHANGED <<privVars, pdVars, moreVars>>
    \/ \E t \in Threads : IsolateEnterLock(t) /\ UNCHANGED <<privVars, pdVars, moreVars>>
    \/ \E t \in Threads : IsolateEnterEnter(t) /\ UNCHANGED <<privVars, pdVars, moreVars>>
    \/ \E t \in Threads : IsolateExitExit(t) /\ UNCHANGED <<privVars, pdVars, moreVars>>
    \/ \E t \in Threads : IsolateExitUnlock(t) /\ UNCHANGED <<privVars, pdVars, moreVars>>
    \/ \E t \in Threads : v8_NewUnlocker(t) /\ UNCHANGED <<privVars, pdVars, moreVars>>
    \/ \E t \in Threads : FreeUnlockerCall(t) /\ UNCHANGED <<privVars, pdVars, moreVars>>
    \/ \E t \in Threads : FreeUnlockerLock(t) /\ UNCHANGED <<privVars, pdVars, moreVars>>
    \/ \E t \in Threads, c \in CtxIds : FreeContextCall(t, c) /\ UNCHANGED <<pdVars, moreVars>>
    \/ \E t \in Threads : FreeContextLock(t) /\ UNCHANGED <<pdVars, moreVars>>
    \/ \E t \in Threads : FreeContextEnter(t) /\ UNCHANGED <<pdVars, moreVars>>
    \/ \E t \in Threads : FreeContextOpenScope(t) /\ UNCHANGED <<pdVars, moreVars>>
    \/ \E t \in Threads : FreeContextLocalRef(t) /\ UNCHANGED <<pdVars, moreVars>>
    \/ \E t \in Threads : FreeContextDeleteTable(t) /\ UNCHANGED <<pdVars, moreVars>>
    \/ \E t \in Threads : FreeContextCloseScope(t) /\ UNCHANGED <<pdVars, moreVars>>
    \/ \E t \in Threads : FreeContextResetPersistent(t) /\ UNCHANGED <<pdVars, moreVars>>
    \/ \E t \in Threads : FreeContextDeletePersistent(t) /\ UNCHANGED <<pdVars, moreVars>>
    \/ \E t \in Threads : FreeContextFreeWrapper(t) /\ UNCHANGED <<pdVars, moreVars>>
    \/ \E t \in Threads : FreeContextExit(t) /\ UNCHANGED <<pdVars, moreVars>>
    \/ \E t \in Threads : FreeContextUnlock(t) /\ UNCHANGED <<pdVars, moreVars>>

SpecLock == Init /\ [][NextLock]_vars

\* the calls on the pd list with the data pointers drawn from P, the deleters from D
NextPDWith(P, D) ==
    \/ \E pd \in P, freePD \in D :
          v8_NewNativeFunctionTemplate(pd, freePD) /\ UNCHANGED <<privVars, lockVars, moreVars>>
    \/ \E pd \in P, freePD \in D :
          v8_NewNativeFunction(pd, freePD) /\ UNCHANGED <<privVars, lockVars, moreVars>>
    \/ \E pd \in P, freePD \in D :
          v8_NewExternalData(pd, freePD) /\ UNCHANGED <<privVars, lockVars, moreVars>>
    \/ \E pd \in P, free_pd \in {"free_pd", "NULL"} :
          v8_IsolateSetNearOOMHandler(pd, free_pd) /\ UNCHANGED <<privVars, lockVars, moreVars>>
    \/ \E k \in 1..MaxPd : WeakCallback(k) /\ UNCHANGED <<privVars, lockVars, moreVars>>
    \/ FreeIsolateCall /\ UNCHANGED <<privVars, lockVars, moreVars>>
    \/ FreeIsolateFreeId /\ UNCHANGED <<privVars, lockVars, moreVars>>
    \/ FreeIsolateReadAllocator /\ UNCHANGED <<privVars, lockVars, moreVars>>
    \/ FreeIsolateDrain /\ UNCHANGED <<privVars, lockVars, moreVars>>
    \/ FreeIsolateDispose /\ UNCHANGED <<privVars, lockVars, moreVars>>
    \/ FreeIsolateFreeAllocator /\ UNCHANGED <<privVars, lockVars, moreVars>>

\* every record is created with data and a deleter
NextPD == NextPDWith(PdData \ {NULL}, Deleters)

\* records are created with or without a deleter
NextPDAny == NextPDWith(PdData, AnyDeleter)

SpecPD == Init /\ [][NextPD]_vars

SpecPDAny == Init /\ [][NextPDAny]_vars

OutsideIds ==
    UNCHANGED <<privVars, lockVars, pdVars, allocVars, promiseVars, handleVars, callVars,
                termVars, pdLockVars, trampVars, rootVars, pauseVars, respVars>>

NextIds ==
    \/ \E t \in Threads : NewIsolateCall(t) /\ OutsideIds
    \/ \E t \in Threads : NewIsolateSetList(t) /\ OutsideIds
    \/ \E t \in Threads : NewIsolateAllocId(t) /\ OutsideIds
    \/ \E t \in Threads : NewIsolateFetchAdd(t) /\ OutsideIds
    \/ \E t \in Threads : NewIsolateSetId(t) /\ OutsideIds
    \/ \E t \in Threads : NewIsolateReturn(t) /\ OutsideIds
    \/ \E i \in 1..MaxIsolates : v8_GetIsolateId(i) /\ OutsideIds

SpecIds == Init /\ [][NextIds]_vars

OutsideAlloc ==
    UNCHANGED <<privVars, lockVars, pdVars, idVars, promiseVars, handleVars, callVars,
                termVars, pdLockVars, trampVars, rootVars, pauseVars, respVars>>

NextAlloc ==
    \/ \E alloc \in AllocatorArgs :
          v8_Initialize(alloc) /\ OutsideAlloc
    \/ \E kind \in BlockKinds :
          CreateBlock(kind) /\ OutsideAlloc
    \/ \E b \in 1..MaxBlocks :
          FreeBlock(b) /\ OutsideAlloc

SpecAlloc == Init /\ [][NextAlloc]_vars

OutsidePromise ==
    UNCHANGED <<privVars, lockVars, pdVars, idVars, allocVars, handleVars, callVars,
                termVars, pdLockVars, trampVars, rootVars, pauseVars, respVars>>

NextPromise ==
    \/ v8_NewResolver /\ OutsidePromise
    \/ \E p \in 1..MaxResolvers, v \in JsValues :
          v8_ResolverResolve(p, v) /\ OutsidePromise
    \/ \E p \in 1..MaxResolvers, v \in JsValues :
          v8_ResolverReject(p, v) /\ OutsidePromise
    \/ \E p \in 1..MaxResolvers :
          v8_PromiseGetState(p) /\ OutsidePromise
    \/ \E p \in 1..MaxResolvers :
          v8_PromiseGetResult(p) /\ OutsidePromise

SpecPromise == Init /\ [][NextPromise]_vars

OutsideHandles ==
    UNCHANGED <<privVars, lockVars, pdVars, idVars, allocVars, promiseVars, callVars,
                termVars, pdLockVars, trampVars, rootVars, pauseVars, respVars>>

NextHandles ==
    \/ v8_NewHandlersScope /\ OutsideHandles
    \/ v8_FreeHandlersScope /\ OutsideHandles
    \/ \E val \in Numbers : v8_ValueFromDouble(val) /\ OutsideHandles
    \/ \E l \in 1..MaxLocals : v8_PersistValue(l) /\ OutsideHandles
    \/ \E p \in 1..MaxPersisted : v8_PersistedValueToLocal(p) /\ OutsideHandles
    \/ \E p \in 1..MaxPersisted : v8_FreePersistedValue(p) /\ OutsideHandles

SpecHandles == Init /\ [][NextHandles]_vars

OutsideCalls ==
    UNCHANGED <<privVars, lockVars, pdVars, idVars, allocVars, promiseVars, handleVars,
                termVars, pdLockVars, trampVars, rootVars, pauseVars, respVars>>

NextCalls ==
    \/ \E o \in MaybeLocalOutcomes :
          WrapperCall("v8_NewString", o, NewStringResult(o)) /\ OutsideCalls
    \/ \E o \in MaybeLocalOutcomes :
          /\ WrapperCall("v8_NativeFunctionTemplateToFunction", o,
                         NativeFunctionTemplateToFunctionResult(o))
          /\ OutsideCalls
    \/ \E o \in MaybeLocalOutcomes :
          WrapperCall("v8_NewNativeFunction", o, NewNativeFunctionResult(o)) /\ OutsideCalls
    \/ \E o \in MaybeLocalOutcomes :
          /\ WrapperCall("v8_ObjectTemplateNewInstance", o, ObjectTemplateNewInstanceResult(o))
          /\ OutsideCalls
    \/ \E o \in MaybeLocalOutcomes :
          WrapperCall("v8_NewResolver", o, NewResolverResult(o)) /\ OutsideCalls
    \/ \E o \in MaybeLocalOutcomes :
          WrapperCall("v8_Compile", o, CompileResult(o)) /\ OutsideCalls
    \/ \E o \in MaybeLocalOutcomes :
          WrapperCall("v8_Run", o, RunResult(o)) /\ OutsideCalls
    \/ \E res \in MaybeBoolOutcomes :
          WrapperCall("v8_InitiateModule", res, InitiateModuleResult(res)) /\ OutsideCalls

SpecCalls == Init /\ [][NextCalls]_vars

OutsideTerm ==
    UNCHANGED <<privVars, lockVars, pdVars, idVars, allocVars, promiseVars, handleVars,
                callVars, pdLockVars, trampVars, rootVars, pauseVars, respVars>>

NextTerm ==
    \/ \E kind \in ScriptKinds : RunCall(kind) /\ OutsideTerm
    \/ StackCheck /\ OutsideTerm
    \/ RunCompletes /\ OutsideTerm
    \/ v8_TerminateCurrExecution /\ OutsideTerm
    \/ v8_CancelTerminateExecution /\ OutsideTerm

SpecTerm == Init /\ [][NextTerm]_vars

\* a running script goes on: it reaches its next stack check and, when finite, its end
SpecTermFair ==
    /\ SpecTerm
    /\ WF_vars(StackCheck /\ OutsideTerm)
    /\ WF_vars(RunCompletes /\ OutsideTerm)

OutsidePdLock ==
    UNCHANGED <<privVars, lockVars, pdVars, idVars, allocVars, promiseVars, handleVars,
                callVars, termVars, trampVars, rootVars, pauseVars, respVars>>

OutsidePdAndLock ==
    UNCHANGED <<privVars, idVars, allocVars, promiseVars, handleVars, callVars, termVars,
                trampVars, rootVars, pauseVars, respVars>>

NextPdLock ==
    \/ \E t \in Threads : PdInsertBy(t) /\ UNCHANGED lockVars /\ OutsidePdAndLock
    \/ \E t \in Threads, k \in 1..MaxPd :
          WeakCallbackBy(t, k) /\ UNCHANGED lockVars /\ OutsidePdAndLock
    \/ \E t \in Threads : FreeIsolateCallBy(t) /\ UNCHANGED lockVars /\ OutsidePdAndLock
    \/ FreeIsolateStepBy /\ UNCHANGED lockVars /\ OutsidePdAndLock
    \/ \E t \in Threads : EnterOrExitBy(t) /\ UNCHANGED pdVars /\ OutsidePdAndLock

SpecPdLock == Init /\ [][NextPdLock]_vars

OutsideTramp ==
    UNCHANGED <<privVars, lockVars, pdVars, idVars, allocVars, promiseVars, handleVars,
                callVars, termVars, pdLockVars, rootVars, pauseVars, respVars>>

OutsidePdAndTramp ==
    UNCHANGED <<privVars, lockVars, idVars, allocVars, promiseVars, handleVars, callVars,
                termVars, pdLockVars, rootVars, pauseVars, respVars>>

NextTramp ==
    \/ \E pd \in Ptrs :
          /\ v8_NewNativeFunctionTemplate(pd, "freePD")
          /\ UNCHANGED trampVars /\ OutsidePdAndTramp
    \/ \E pd \in Ptrs :
          v8_NewNativeFunction(pd, "freePD") /\ UNCHANGED trampVars /\ OutsidePdAndTramp
    \/ \E k \in 1..MaxPd, argc \in 0..MaxArgs, value \in {0} \cup Numbers :
          v8_NativeBaseFunction(k, argc, value) /\ OutsidePdAndTramp
    \/ \E k \in 1..MaxPd : WeakCallback(k) /\ UNCHANGED trampVars /\ OutsidePdAndTramp

SpecTramp == Init /\ [][NextTramp]_vars

OutsideRoots ==
    UNCHANGED <<privVars, lockVars, pdVars, idVars, allocVars, promiseVars, handleVars,
                callVars, termVars, pdLockVars, trampVars, pauseVars, respVars>>

NextRoots ==
    \/ \E kind \in PersistedKinds : NewLocalObject(kind) /\ OutsideRoots
    \/ \E o \in 1..MaxObjects : PersistObject(o) /\ OutsideRoots
    \/ \E p \in 1..MaxPersistents : PersistedToLocal(p) /\ OutsideRoots
    \/ CloseHandleScope /\ OutsideRoots
    \/ CollectGarbage /\ OutsideRoots
    \/ \E p \in 1..MaxPersistents : FreePersistedStep(p) /\ OutsideRoots

SpecRoots == Init /\ [][NextRoots]_vars

\* the pd list alone: nodes are added, freed one by one and drained
NextList ==
    \/ v8_NewExternalData(1, "freePD") /\ UNCHANGED <<privVars, lockVars, moreVars>>
    \/ \E free_pd \in {"free_pd", "NULL"} :
          v8_IsolateSetNearOOMHandler(1, free_pd) /\ UNCHANGED <<privVars, lockVars, moreVars>>
    \/ \E k \in 1..MaxPd : WeakCallback(k) /\ UNCHANGED <<privVars, lockVars, moreVars>>
    \/ FreeIsolateCall /\ UNCHANGED <<privVars, lockVars, moreVars>>
    \/ FreeIsolateFreeId /\ UNCHANGED <<privVars, lockVars, moreVars>>
    \/ FreeIsolateReadAllocator /\ UNCHANGED <<privVars, lockVars, moreVars>>
    \/ FreeIsolateDrain /\ UNCHANGED <<privVars, lockVars, moreVars>>
    \/ FreeIsolateDispose /\ UNCHANGED <<privVars, lockVars, moreVars>>
    \/ FreeIsolateFreeAllocator /\ UNCHANGED <<privVars, lockVars, moreVars>>

SpecList == Init /\ [][NextList]_vars

OutsidePause ==
    UNCHANGED <<privVars, lockVars, pdVars, idVars, allocVars, promiseVars, handleVars,
                callVars, termVars, pdLockVars, trampVars, rootVars, respVars>>

\* what v8_InspectorCreate leaves alone
OutsideInspector ==
    UNCHANGED <<privVars, lockVars, pdVars, idVars, allocVars, promiseVars, handleVars,
                callVars, termVars, pdLockVars, trampVars, rootVars>>

NextPause ==
    \/ \E onResponse \in UserCallbacks, deleter \in UserCallbacks, onWait \in UserCallbacks :
          v8_InspectorCreate(onResponse, deleter, onWait) /\ OutsideInspector
    \/ runMessageLoopOnPause /\ OutsidePause
    \/ PauseLoopTest /\ OutsidePause
    \/ \E res \in {0, 1} : WaitCallbackReturns(res) /\ OutsidePause
    \/ PumpMessageLoopDone /\ OutsidePause
    \/ quitMessageLoopOnPause /\ OutsidePause
    \/ \E fn \in UserCallbacks :
          v8_InspectorSetOnWaitFrontendMessageOnPauseCallback(fn) /\ OutsidePause

SpecPause == Init /\ [][NextPause]_vars

OutsideResp ==
    UNCHANGED <<privVars, lockVars, pdVars, idVars, allocVars, promiseVars, handleVars,
                callVars, termVars, pdLockVars, trampVars, rootVars, pauseVars>>

NextResp ==
    \/ \E onResponse \in UserCallbacks, deleter \in UserCallbacks, onWait \in UserCallbacks :
          v8_InspectorCreate(onResponse, deleter, onWait) /\ OutsideInspector
    \/ \E onResponse \in UserCallbacks, deleter \in UserCallbacks :
          v8_InspectorSetOnResponseCallback(onResponse, deleter) /\ OutsideResp
    \/ sendResponse /\ OutsideResp
    \/ sendNotification /\ OutsideResp

SpecResp == Init /\ [][NextResp]_vars

SpecLockFair ==
    /\ Init
    /\ [][NextLock]_vars
    /\ \A t \in Threads : SF_vars(IsolateEnterLock(t) /\ UNCHANGED <<privVars, pdVars, moreVars>>)
    /\ \A t \in Threads : WF_vars(IsolateEnterEnter(t) /\ UNCHANGED <<privVars, pdVars, moreVars>>)

-----------------------------------------------------------------------------
(* Private data: claims C2 - C6, checked under SpecPriv *)

TableOf(c) == embeddedData[CtxEmbeddedData(c)].vec

\* the table of context c, and what a get on it returns, in the heap given
TableIn(heap, c) == heap[CtxEmbeddedData(c)].vec
ResultIn(heap, c, index) == EmbeddedGet(TableIn(heap, c), index)

\* C2: from every reachable state, v8_SetPrivateData(ctx, i, p) leaves the value
\* v8_GetPrivateData(ctx, j) returns unchanged for every index j other than i.
C2_IndicesIndependent ==
    \A c \in LiveContexts, i \in Indices, p \in Ptrs, j \in Indices :
        j # i => ResultIn(SetPrivateDataHeap(c, i, p), c, j) = GetPrivateDataResult(c, j)

\* C3: from every reachable state, whatever set and reset calls led to it, after
\* v8_SetPrivateData(ctx, i, p) the value v8_GetPrivateData(ctx, i) returns is p.
C3_SetThenGet ==
    \A c \in LiveContexts, i \in Indices, p \in Ptrs :
        ResultIn(SetPrivateDataHeap(c, i, p), c, i) = p

\* index 0 was set after index 1 had been set and reset, and the get returns the pointer
C3_Witness ==
    \E c \in LiveContexts :
        /\ slots[c][0] = "set"
        /\ slots[c][1] = "reset"
        /\ GetPrivateDataResult(c, 0) \in Ptrs

\* the heaps a reset of index i of context c, through the context or a ref of it, gives
ResetHeaps(c, i) ==
    LET refs == {r \in DOMAIN contextRefs : refOrigin[r] = c}
    IN {ResetPrivateDataHeap(c, i)} \cup {ResetPrivateDataOnCtxRefHeap(r, i) : r \in refs}

\* C4: from every reachable state, a reset of index i makes the following get of i
\* return NULL, keeps the length of the table and the value at every other index of
\* every context; a reset at or beyond the length of the table changes nothing.
C4_ResetFrame ==
    \A c \in LiveContexts, i \in 0..(MaxIndex + 1) :
        \A heap \in ResetHeaps(c, i) :
            /\ ResultIn(heap, c, i) = NULL
            /\ Len(TableIn(heap, c)) = Len(TableOf(c))
            /\ \A d \in LiveContexts, j \in 0..(MaxIndex + 1) :
                  (d # c \/ j # i) => ResultIn(heap, d, j) = GetPrivateDataResult(d, j)
            /\ i >= Len(TableOf(c)) => heap = embeddedData

\* index 0 was reset in a table of two slots whose slot 1 still holds data
C4_Witness ==
    \E c \in LiveContexts :
        /\ slots[c][0] = "reset"
        /\ slots[c][1] = "set"
        /\ Len(TableOf(c)) = 2
        /\ TableOf(c)[1] = NULL
        /\ TableOf(c)[2] \in Ptrs

\* C5: v8_GetPrivateData returns NULL for every index that holds no data: never set,
\* reset since, beyond the length of the table, or a gap below a higher index.
C5_GetUnsetIsNull ==
    \A c \in LiveContexts, i \in 0..(MaxIndex + 1) :
        (i \notin Indices \/ slots[c][i] # "set") => GetPrivateDataResult(c, i) = NULL

\* only index 1 was ever set: index 0 is a gap, index 2 is beyond the table
C5_Witness ==
    \E c \in LiveContexts :
        /\ slots[c][0] = "never"
        /\ slots[c][1] = "set"
        /\ Len(TableOf(c)) = 2

\* C6: the Context accessors and the ContextRef accessors of one context address the
\* same side-table: a get through either returns the same value, and a set through
\* either is what a get through the other returns next; two contexts never share a
\* side-table.
C6_CtxAndRefSameTable ==
    /\ \A c, d \in LiveContexts : c # d => CtxEmbeddedData(c) # CtxEmbeddedData(d)
    /\ \A r \in DOMAIN contextRefs, i \in Indices :
          LET c == refOrigin[r]
          IN c \in LiveContexts =>
               /\ GetPrivateDataFromCtxRefResult(r, i) = GetPrivateDataResult(c, i)
               /\ \A p \in Ptrs :
                     /\ EmbeddedGet(SetPrivateDataHeap(c, i, p)[RefEmbeddedData(r)].vec, i) = p
                     /\ ResultIn(SetPrivateDataOnCtxRefHeap(r, i, p), c, i) = p

\* data is held by the second context, a ref of which exists, and not by the first
C6_Witness ==
    \E r \in DOMAIN contextRefs, i \in Indices :
        /\ refOrigin[r] = 2
        /\ 1 \in LiveContexts
        /\ GetPrivateDataFromCtxRefResult(r, i) \in Ptrs
        /\ GetPrivateDataResult(2, i) = GetPrivateDataFromCtxRefResult(r, i)
        /\ GetPrivateDataResult(1, i) = NULL

-----------------------------------------------------------------------------
(* The pd list: claim C1, checked under SpecPD *)

\* C1: the user deleter of a record is never invoked twice, has been invoked once when
\* the weak callback released the record, and has been invoked exactly once on every
\* record created when v8_FreeIsolate has returned.
C1_DeleterExactlyOnce ==
    \A k \in DOMAIN nf_pds :
        /\ deleterCalls[k] <= 1
        /\ k \in weakFired => deleterCalls[k] = 1
        /\ isolate = "disposed" => deleterCalls[k] = 1
        /\ nf_pds[k].freed <=> deleterCalls[k] = 1

\* the isolate was freed after the weak callback had released some of the records
C1_Witness ==
    /\ isolate = "disposed"
    /\ Cardinality(DOMAIN nf_pds) >= 2
    /\ weakFired # {}
    /\ weakFired # DOMAIN nf_pds
    /\ \A k \in DOMAIN nf_pds : deleterCalls[k] = 1

\* the entries of the pd list, from start to end
RECURSIVE ListFrom(_)
ListFrom(n) == IF n = NULL THEN <<>> ELSE <<n>> \o ListFrom(pd_nodes[n].next)

Linked == {ListFrom(pd_list.start)[x] : x \in 1..Len(ListFrom(pd_list.start))}

\* the statements of v8_FreeIsolate that follow the drain of the list
AfterDrain == {"fi_dispose", "fi_free_allocator", "returned"}

\* C11: v8_FreeIsolate drains the whole pd list, invoking the deleter of each entry
\* still in it, before the isolate is disposed; the array-buffer allocator is deleted
\* only after the dispose; no deleter runs once the isolate is disposed.
C11_DrainBeforeDispose ==
    /\ [](isolate = "disposed" =>
            /\ pd_list.start = NULL /\ pd_list.end = NULL
            /\ \A n \in DOMAIN pd_nodes : pd_nodes[n].freed
            /\ \A k \in DOMAIN nf_pds : nf_pds[k].freed /\ deleterCalls[k] = 1
            /\ isolateData.list = "freed")
    /\ [](isolateData.allocator = "deleted" => isolate = "disposed")
    /\ [](fi.pc = "returned" => isolate = "disposed" /\ isolateData.allocator = "deleted")
    /\ [][(fi.pc = "fi_drain" /\ fi'.pc # "fi_drain") =>
            /\ isolate' = "live"
            /\ \A n \in DOMAIN pd_nodes :
                  /\ pd_nodes'[n].freed
                  /\ (n \in Linked /\ pd_nodes[n].free_data = "v8_FreeNaticeFunctionPD") =>
                        deleterCalls'[pd_nodes[n].data] = deleterCalls[pd_nodes[n].data] + 1
                  /\ (n \in Linked /\ pd_nodes[n].free_data = "free_pd") =>
                        freePdCalls'[pd_nodes[n].data] = freePdCalls[pd_nodes[n].data] + 1]_vars
    /\ [][isolate = "disposed" =>
            (deleterCalls' = deleterCalls /\ freePdCalls' = freePdCalls)]_vars

\* v8_FreeIsolate has returned; its drain released a record and a near-OOM entry, after
\* the weak callback had released another record
C11_Witness ==
    /\ fi.pc = "returned"
    /\ isolate = "disposed"
    /\ isolateData.allocator = "deleted"
    /\ weakFired # {}
    /\ \E k \in DOMAIN nf_pds : k \notin weakFired /\ deleterCalls[k] = 1
    /\ \E j \in DOMAIN near_oom : freePdCalls[j] = 1

\* C12: each v8_IsolateSetNearOOMHandler call has one entry of its own in the pd list,
\* holding its pd and free_pd; free_pd(pd) is not invoked before the drain of
\* v8_FreeIsolate; after the drain it has been invoked exactly once when it is not
\* NULL and never when it is NULL, and no NULL function pointer has been called.
C12_NearOOMUserdata ==
    /\ ~nullCalled
    /\ \A j \in DOMAIN near_oom :
          LET n == near_oom[j].node
          IN /\ n \in DOMAIN pd_nodes
             /\ pd_nodes[n].data = j
             /\ pd_nodes[n].free_data = near_oom[j].free_pd
             /\ \A i \in DOMAIN near_oom : i # j => near_oom[i].node # n
             /\ \A k \in DOMAIN nf_pds : nf_pds[k].node # n
             /\ fi.pc \notin AfterDrain =>
                   (freePdCalls[j] = 0 /\ ~pd_nodes[n].freed /\ n \in Linked)
             /\ fi.pc \in AfterDrain =>
                   /\ pd_nodes[n].freed
                   /\ freePdCalls[j] = IF near_oom[j].free_pd = "NULL" THEN 0 ELSE 1

\* two handlers were set, one with a free function and one without, and the isolate
\* was freed
C12_Witness ==
    /\ fi.pc = "returned"
    /\ \E i, j \in DOMAIN near_oom :
          /\ near_oom[i].free_pd = "NULL" /\ freePdCalls[i] = 0
          /\ near_oom[j].free_pd = "free_pd" /\ freePdCalls[j] = 1

\* C14: no record with a non-null data pointer and a NULL deleter is in the pd list of
\* the isolate (its creation is rejected), and no free of a record has called a NULL
\* deleter.  Checked under SpecPDAny, where callers pass any deleter.
C14_NullDeleterRejected ==
    /\ \A k \in DOMAIN nf_pds : ~(nf_pds[k].pd # NULL /\ nf_pds[k].freePD = "NULL")
    /\ ~nullCalled

-----------------------------------------------------------------------------
(* Isolate ids: claim C13, checked under SpecIds *)

HasId == {i \in DOMAIN isolates : isolates[i].id_ptr # NULL}

\* C13: the counter starts at 1 and never decreases; every isolate v8_NewIsolate has
\* returned has an id >= 1; no two isolates have the same id, also when created by
\* concurrent calls; an isolate whose v8_NewIsolate call began after the call of another
\* had returned has the greater id; v8_GetIsolateId returns 0 exactly for an isolate
\* that carries no id.
C13_IsolateIds ==
    /\ [](ISOLATE_ID_COUNTER >= 1)
    /\ [][ISOLATE_ID_COUNTER' >= ISOLATE_ID_COUNTER]_vars
    /\ [](\A i \in Returned : i \in HasId /\ GetIsolateIdResult(i) >= 1)
    /\ [](\A i, j \in HasId : i # j => GetIsolateIdResult(i) # GetIsolateIdResult(j))
    /\ [](\A i \in HasId : GetIsolateIdResult(i) < ISOLATE_ID_COUNTER)
    /\ [](\A i \in HasId : \A j \in niBefore[i] :
              GetIsolateIdResult(j) < GetIsolateIdResult(i))
    /\ [](\A i \in DOMAIN isolates :
              GetIsolateIdResult(i) = ISOLATE_ID_INVALID <=> i \notin HasId)

\* two concurrent calls took their ids in the order opposite to that of their
\* v8::Isolate::New, after an earlier call had returned with id 1
C13_Witness ==
    \E i, j, k \in DOMAIN isolates :
        /\ i \in niBefore[j] /\ i \in niBefore[k]
        /\ j < k
        /\ j \in HasId /\ k \in HasId
        /\ GetIsolateIdResult(k) < GetIsolateIdResult(j)
        /\ GetIsolateIdResult(i) = 1

-----------------------------------------------------------------------------
(* The allocator: claims C15 and C16, checked under SpecAlloc *)

\* C15: every released block was released by the function that matches its origin: a
\* block from V8_ALLOC by V8_FREE, a block from new by delete.
C15_AllocMatchesFree ==
    \A b \in DOMAIN blocks :
        blocks[b].free # "none" =>
            /\ blocks[b].origin = "V8_ALLOC" => blocks[b].free = "V8_FREE"
            /\ blocks[b].origin = "new" => blocks[b].free = "delete"

\* the allocator the first v8_Initialize call installs
FirstInstalled == IF initCalls[1] # "NULL" THEN initCalls[1] ELSE "DefaultAllocator"

\* C16: once v8_Initialize has been called, the installed allocator is the one its
\* first call installed (its argument, or the default allocator for NULL), whatever
\* calls follow.
C16_AllocatorSetOnce ==
    initCalls # <<>> => allocator = FirstInstalled

-----------------------------------------------------------------------------
(* Promises: claims C17 and C18, checked under SpecPromise *)

Pending == {p \in DOMAIN promises : promises[p].state = "kPending"}

\* the part of C17 that does not depend on the value passed
PromiseStatesReported ==
    /\ \A p \in DOMAIN promises :
          /\ PromiseGetStateIn(promises, p) # "v8_PromiseState_Unknown"
          /\ resolverCalls[p] = 0 => PromiseGetStateIn(promises, p) = "v8_PromiseState_Pending"
    /\ \A p \in Pending, v \in JsValues :
          /\ PromiseGetStateIn(ResolverRejectHeap(p, v), p) = "v8_PromiseState_Rejected"
          /\ PromiseGetResultIn(ResolverRejectHeap(p, v), p) = v

\* C17 as claimed: the promise of a new resolver is pending; on a pending promise,
\* v8_ResolverResolve(v) gives state fulfilled and result v and v8_ResolverReject(v)
\* gives state rejected and result v, for every value v; the state unknown is never
\* reported.
C17_ResolveSettles ==
    /\ PromiseStatesReported
    /\ \A p \in Pending, v \in JsValues :
          /\ PromiseGetStateIn(ResolverResolveHeap(p, v), p) = "v8_PromiseState_Fulfilled"
          /\ PromiseGetResultIn(ResolverResolveHeap(p, v), p) = v

\* C17 amended: as claimed for v8_ResolverReject and for the states reported; for
\* v8_ResolverResolve(v), state fulfilled and result v when v is not a thenable; the
\* promise itself as v rejects it with a TypeError.
C17_ResolveSettlesPlain ==
    /\ PromiseStatesReported
    /\ \A p \in Pending, v \in JsValues :
          LET heap == ResolverResolveHeap(p, v)
          IN /\ ~IsThenable(v) =>
                   /\ PromiseGetStateIn(heap, p) = "v8_PromiseState_Fulfilled"
                   /\ PromiseGetResultIn(heap, p) = v
             /\ v = PromiseValue(p) =>
                   /\ PromiseGetStateIn(heap, p) = "v8_PromiseState_Rejected"
                   /\ PromiseGetResultIn(heap, p) = TypeError

\* one promise was fulfilled with a plain value, another is pending after a resolve
\* with a thenable
C17_Witness ==
    \E p, q \in DOMAIN promises :
        /\ PromiseGetStateIn(promises, p) = "v8_PromiseState_Fulfilled"
        /\ PromiseGetResultIn(promises, p) \in PlainValues
        /\ q \in Pending /\ resolverCalls[q] > 0

\* C18: on a promise that is not pending, v8_ResolverResolve and v8_ResolverReject,
\* with any value, change neither the state nor the result of any promise.
C18_SettledIsTerminal ==
    \A p \in DOMAIN promises \ Pending, v \in JsValues :
        /\ ResolverResolveHeap(p, v) = promises
        /\ ResolverRejectHeap(p, v) = promises

\* a rejected promise has had a second call on its resolver
C18_Witness ==
    \E p \in DOMAIN promises :
        /\ PromiseGetStateIn(promises, p) = "v8_PromiseState_Rejected"
        /\ resolverCalls[p] = MaxCalls

-----------------------------------------------------------------------------
(* Handle scopes and persisted values: claims C19 and C20, under SpecHandles *)

OpenSids == {scopes[i].sid : i \in DOMAIN scopes}

\* the locals v8_PersistedValueToLocal made from the persisted value p
LocalsFrom(p) == {m \in DOMAIN locals : locals[m].from = p}

\* C19: a local that v8_PersistedValueToLocal yields denotes the value the persisted
\* local denoted, whether or not the scope of that local is still open; the
\* conversion leaves the persisted handle as it was, and a persisted handle is live
\* until v8_FreePersistedValue.
C19_PersistRoundTrip ==
    \A p \in DOMAIN persisted :
        /\ \A m \in LocalsFrom(p) :
              ValidIn(handles, locals[m]) => Denotes(locals[m]) = locals[persisted[p].of].val
        /\ persisted[p].state = "live" =>
              /\ persisted[p].value = locals[persisted[p].of].val
              /\ PersistedAfterToLocal(p) = persisted
        /\ persisted[p].state = "reset" => persisted[p].freedBy = "v8_FreePersistedValue"

\* the scope of the persisted local was closed, and in a scope opened later the
\* persisted value was converted twice, both results valid
C19_Witness ==
    \E p \in DOMAIN persisted :
        /\ persisted[p].state = "live"
        /\ locals[persisted[p].of].sid \notin OpenSids
        /\ ~ValidIn(handles, locals[persisted[p].of])
        /\ \E m1, m2 \in LocalsFrom(p) :
              /\ m1 # m2
              /\ ValidIn(handles, locals[m1]) /\ ValidIn(handles, locals[m2])
              /\ locals[m1].sid > locals[persisted[p].of].sid

\* C20: after v8_FreeHandlersScope of the innermost scope, no local created in that
\* scope is valid, every local created in an enclosing open scope is valid and
\* denotes its value, and no persisted handle is reset by it.
C20_FreeScopeInvalidatesItsLocals ==
    /\ Len(scopes) > 0 =>
          \A l \in DOMAIN locals :
              /\ locals[l].sid = InnermostScope.sid => ~ValidIn(HandlesAfterFree, locals[l])
              /\ locals[l].sid \in OpenSids \ {InnermostScope.sid} =>
                    /\ ValidIn(HandlesAfterFree, locals[l])
                    /\ HandlesAfterFree[locals[l].slot].value = locals[l].val
    /\ \A l \in DOMAIN locals : locals[l].sid \notin OpenSids => ~ValidIn(handles, locals[l])
    /\ \A p \in DOMAIN persisted :
          persisted[p].state = "live" \/ persisted[p].freedBy = "v8_FreePersistedValue"

\* a nested scope with a local was closed, a local of the enclosing scope is valid
\* and a value persisted in the closed scope is live
C20_Witness ==
    /\ Len(scopes) > 0
    /\ \E l, k \in DOMAIN locals :
          /\ locals[l].sid \notin OpenSids
          /\ locals[l].sid > InnermostScope.sid
          /\ locals[k].sid = InnermostScope.sid
          /\ ValidIn(handles, locals[k])
          /\ \E p \in DOMAIN persisted : persisted[p].of = l /\ persisted[p].state = "live"

-----------------------------------------------------------------------------
(* Failure of an engine call: claims C21 and C22, checked under SpecCalls *)

\* the wrapper functions that return a pointer
PointerOps ==
    {"v8_NewString", "v8_NativeFunctionTemplateToFunction", "v8_NewNativeFunction",
     "v8_ObjectTemplateNewInstance", "v8_NewResolver", "v8_Compile", "v8_Run"}

\* C21: when the engine call of v8_NewString, v8_NewNativeFunction,
\* v8_NativeFunctionTemplateToFunction, v8_ObjectTemplateNewInstance, v8_NewResolver,
\* v8_Compile or v8_Run reports failure, the function returns NULL and the process
\* keeps running.
C21_FailureIsNullReturn ==
    /\ process = "running"
    /\ \A i \in DOMAIN callLog :
          (callLog[i].op \in PointerOps /\ callLog[i].outcome = "empty") =>
              (callLog[i].returned /\ callLog[i].ret = NULL)

\* C22: v8_InitiateModule returns 1 when the engine reported true and 0 when it
\* reported nothing or false.
C22_InitiateModuleResult ==
    \A i \in DOMAIN callLog :
        callLog[i].op = "v8_InitiateModule" =>
            /\ callLog[i].returned
            /\ callLog[i].ret = (IF callLog[i].outcome = "JustTrue" THEN 1 ELSE 0)

-----------------------------------------------------------------------------
(* Termination of a running script: claim C23, checked under SpecTermFair *)

\* a run during which the other thread asked for termination and did not cancel
TerminationAsked ==
    /\ run.pc = "running"
    /\ termination.requestedInRun
    /\ ~termination.cancelledInRun

LastRun == runLog[Len(runLog)]

\* the last v8_Run returned NULL with v8_TryCatchHasTerminated equal to 1
LastRunTerminated ==
    /\ run.pc = "idle"
    /\ Len(runLog) > 0
    /\ LastRun.ret = NULL /\ LastRun.has_terminated

\* the last v8_Run was of a script that reached its end and returned its value
LastRunCompleted ==
    /\ run.pc = "idle"
    /\ Len(runLog) > 0
    /\ LastRun.kind = "finite" /\ LastRun.ret # NULL /\ ~LastRun.has_terminated

\* a v8_Run that began after v8_CancelTerminateExecution, called once or more with
\* no v8_TerminateCurrExecution since, and that returned, was not terminated
RunAfterCancelCompletes ==
    \A i \in DOMAIN runLog :
        (i > 1 /\ runLog[i].cancelsBeforeRun > 0 /\ ~runLog[i].terminateAfterCancel) =>
            (runLog[i].ret # NULL /\ ~runLog[i].has_terminated)

-----------------------------------------------------------------------------
(* v8_FreeContext and the state of the caller: claim C25, checked under SpecLock *)

\* the steps of v8_FreeContext between isolate->Enter() and isolate->Exit()
FcInside ==
    {"fc_open_scope", "fc_local_ref", "fc_delete_table", "fc_close_scope",
     "fc_reset_persistent", "fc_delete_persistent", "fc_free_wrapper", "fc_exit"}

\* C25: when v8_FreeContext returns, the calling thread holds the lock exactly if it
\* did before the call and its enter depth is what it was before the call, whether or
\* not the thread had entered the isolate; the call goes past its Locker only when no
\* other thread holds the lock, and holds the lock alone while it frees the side-table.
C25_FreeContextRestoresCaller ==
    /\ [][\A t \in Threads :
            (pc[t] = "fc_unlock" /\ pc'[t] = "idle") =>
                /\ entered'[t] = fc[t].entered0
                /\ (t \in lockedBy') = fc[t].held0]_vars
    /\ [][\A t \in Threads :
            (pc[t] = "fc_lock" /\ pc'[t] # "fc_lock") => lockedBy \subseteq {t}]_vars
    /\ [](\A t \in Threads : pc[t] \in FcInside => lockedBy = {t})

\* v8_FreeContext has returned to a thread that had not entered the isolate and to a
\* thread that had, and is still inside
C25_Witness ==
    \E t, u \in Threads :
        /\ pc[t] = "idle" /\ fcTrace[t] # <<>> /\ fcTrace[t][Len(fcTrace[t])] = "fc_unlock"
        /\ entered[t] > 0 /\ t \in lockedBy
        /\ pc[u] = "idle" /\ fcTrace[u] # <<>> /\ fcTrace[u][Len(fcTrace[u])] = "fc_unlock"
        /\ entered[u] = 0 /\ u \notin lockedBy

-----------------------------------------------------------------------------
(* The native function trampoline: claim C26, checked under SpecTramp *)

\* C26: the trampoline calls the callback registered for the function, with the user
\* data registered for it and the argument count of the call; a non-null block the
\* callback returns gives the return value of the call and is freed exactly once; for
\* NULL the return value is left unset and nothing is freed.
C26_Trampoline ==
    /\ lastCall.k # 0 =>
          /\ lastCall.func = nf_pds[lastCall.k].func
          /\ lastCall.pd = nf_pds[lastCall.k].pd
          /\ lastCall.len = lastCall.argc
          /\ lastCall.val # NULL =>
                /\ lastCall.return_value = [set |-> TRUE, value |-> wrappers[lastCall.val].value]
                /\ lastCall.frees = 1
          /\ lastCall.val = NULL => (~lastCall.return_value.set /\ lastCall.frees = 0)
    /\ \A w \in DOMAIN wrappers : wrappers[w].frees = 1

\* two functions with different callbacks and user data exist, a block was returned
\* and freed earlier, and the last call, with two arguments, returned NULL
C26_Witness ==
    /\ lastCall.k # 0 /\ lastCall.val = NULL /\ lastCall.argc = MaxArgs
    /\ wrappers # <<>>
    /\ \E j \in DOMAIN nf_pds :
          /\ nf_pds[j].func # lastCall.func
          /\ nf_pds[j].pd # lastCall.pd

-----------------------------------------------------------------------------
(* Persisted handles as roots: claim C27, checked under SpecRoots *)

\* C27: for each of the four persisted kinds, the Free function resets the handle
\* before it deletes the block, so that no deleted block is a root; from Persist to
\* Free the object of the handle is alive, whatever garbage collections and closings
\* of the handle scope happen.
C27_ResetBeforeDelete ==
    \A p \in DOMAIN persistents :
        /\ persistents[p].block = "deleted" =>
              (~persistents[p].root /\ persistents[p].trace = <<"Reset", "delete">>)
        /\ persistents[p].trace = <<>> =>
              (persistents[p].root /\ objects[persistents[p].obj].alive)

\* a persisted object outlived the closing of its scope and a garbage collection that
\* freed another object, and a second persisted handle was reset and deleted
C27_Witness ==
    \E p, q \in DOMAIN persistents :
        /\ persistents[p].trace = <<>>
        /\ persistents[p].obj \notin localRoots
        /\ persistents[q].block = "deleted"
        /\ ~objects[persistents[q].obj].alive

-----------------------------------------------------------------------------
(* The shape of the pd list: claim C28, checked under SpecList *)

\* the nodes met from end by prev, at most len of them
RECURSIVE ListBack(_, _)
ListBack(n, len) ==
    IF n = NULL \/ len = 0 THEN <<>> ELSE <<n>> \o ListBack(pd_nodes[n].prev, len - 1)

\* the nodes met from start by next, at most len of them
RECURSIVE ListForward(_, _)
ListForward(n, len) ==
    IF n = NULL \/ len = 0 THEN <<>> ELSE <<n>> \o ListForward(pd_nodes[n].next, len - 1)

\* the nodes added and not freed, in the order of their insertion
RECURSIVE NotFreedFrom(_)
NotFreedFrom(n) ==
    IF n \notin DOMAIN pd_nodes THEN <<>>
    ELSE (IF pd_nodes[n].freed THEN <<>> ELSE <<n>>) \o NotFreedFrom(n + 1)

Reverse(s) == [i \in 1..Len(s) |-> s[Len(s) + 1 - i]]

\* the nodes v8_PDListFree frees on the heap H, in order, at most len of them
RECURSIVE DrainOrder(_, _)
DrainOrder(H, len) ==
    IF H.list.end = NULL \/ H.nullCalled \/ len = 0 THEN <<>>
    ELSE <<H.list.end>> \o DrainOrder(v8_ListNodeFree(H, H.list.end), len - 1)

\* C28: the pd list is a well-formed doubly-linked list of the nodes added and not
\* freed, in insertion order: start is NULL exactly if end is, start has no prev and
\* end no next, next and prev are inverses, no freed node is reached from start or
\* end; v8_PDListFree ends, freeing the nodes from the tail to the head.
C28_ListWellFormed ==
    LET size == Cardinality(DOMAIN pd_nodes) + 1
        forward == ListForward(pd_list.start, size)
        back == ListBack(pd_list.end, size)
    IN isolateData.list = "live" =>
          /\ (pd_list.start = NULL) <=> (pd_list.end = NULL)
          /\ pd_list.start # NULL => pd_nodes[pd_list.start].prev = NULL
          /\ pd_list.end # NULL => pd_nodes[pd_list.end].next = NULL
          /\ \A n \in DOMAIN pd_nodes :
                ~pd_nodes[n].freed =>
                    /\ pd_nodes[n].next # NULL => pd_nodes[pd_nodes[n].next].prev = n
                    /\ pd_nodes[n].prev # NULL => pd_nodes[pd_nodes[n].prev].next = n
          /\ forward = NotFreedFrom(1)
          /\ back = Reverse(forward)
          /\ DrainOrder(PdHeap, size) = back
          /\ v8_PDListFree(PdHeap).list = [start |-> NULL, end |-> NULL]
          /\ \A n \in DOMAIN pd_nodes : v8_PDListFree(PdHeap).nodes[n].freed

\* the node in the middle of three was freed and two nodes are left in the list
C28_Witness ==
    /\ isolateData.list = "live"
    /\ \E n \in DOMAIN pd_nodes :
          /\ pd_nodes[n].freed
          /\ pd_list.start # NULL /\ pd_list.start < n
          /\ pd_list.end > n

-----------------------------------------------------------------------------
(* The message loop of a pause: claim C29, checked under SpecPause *)

\* a wait callback is installed: the function object holds a function of the user
WaitCallbackInstalled ==
    ~onWaitFrontendMessageOnPause_.empty /\ onWaitFrontendMessageOnPause_.fn # NULL

\* a runMessageLoopOnPause call made while a loop runs changes nothing
NestedCallReturnsAtOnce ==
    [][pauseLog'.nested # pauseLog.nested =>
          /\ UNCHANGED <<terminated_, run_nested_loop_, pauseFrames>>
          /\ pauseLog'.waits = pauseLog.waits]_vars

\* the function object is invoked only before quit and a 0 result, on a set flag
LoopStopsAtFlags ==
    [][pauseLog'.waits # pauseLog.waits =>
          ~pauseLog.quit /\ ~pauseLog.zero /\ ~onWaitFrontendMessageOnPause_.empty]_vars

\* the outer call returns with terminated_ true and run_nested_loop_ false
OuterReturnIsQuiescent ==
    [][pauseFrames # <<>> /\ pauseFrames' = <<>> => terminated_' /\ ~run_nested_loop_']_vars

\* C29: a runMessageLoopOnPause call made while a pause loop runs returns at once and
\* does not invoke the wait callback; a running loop invokes the wait callback no more
\* once quitMessageLoopOnPause was called, once the callback returned 0, or when no
\* callback is installed; when the outer call returns, terminated_ is true and
\* run_nested_loop_ is false.
C29_PauseLoop ==
    /\ NestedCallReturnsAtOnce
    /\ [][pauseLog'.waits # pauseLog.waits =>
             ~pauseLog.quit /\ ~pauseLog.zero /\ WaitCallbackInstalled]_vars
    /\ OuterReturnIsQuiescent

-----------------------------------------------------------------------------
(* Replacing the on-response callback: claim C30, checked under SpecResp *)

\* C30: v8_InspectorSetOnResponseCallback invokes the deleter installed before, if
\* there is one, exactly once and before the new callback and deleter are stored;
\* afterwards responses and notifications go to the new callback only, or are dropped
\* when it is null; no deleter is invoked twice for one installation.
C30_ReplaceOnResponse ==
    /\ [][installs' # installs =>
             /\ lastSet' = (IF onResponseUserDataDeleter_.empty THEN <<>>
                            ELSE <<[op |-> "deleter", inst |-> onResponseUserDataDeleter_.inst]>>)
                           \o <<[op |-> "store", inst |-> installs']>>
             /\ \A i \in DOMAIN respDeleterCalls :
                   respDeleterCalls'[i] =
                      respDeleterCalls[i]
                        + (IF ~onResponseUserDataDeleter_.empty
                              /\ i = onResponseUserDataDeleter_.inst THEN 1 ELSE 0)
             /\ ~onResponse_'.empty => onResponse_'.inst = installs'
             /\ ~onResponseUserDataDeleter_'.empty =>
                   onResponseUserDataDeleter_'.inst = installs']_vars
    /\ [][lastResponse'.count # lastResponse.count /\ installs > 0 =>
             IF onResponse_.empty THEN lastResponse'.outcome = "dropped"
             ELSE lastResponse'.outcome = "delivered" /\ lastResponse'.inst = installs]_vars
    /\ [](\A i \in DOMAIN respDeleterCalls : respDeleterCalls[i] <= 1)

\* the deleter of the first Set call ran at the second, and a response went to the
\* callback of the second
C30_Witness ==
    /\ installs = 2
    /\ lastSet = <<[op |-> "deleter", inst |-> 1], [op |-> "store", inst |-> 2]>>
    /\ respDeleterCalls[1] = 1
    /\ lastResponse.outcome = "delivered" /\ lastResponse.inst = 2

-----------------------------------------------------------------------------
(* The pd list under the isolate lock: claim C24, checked under SpecPdLock *)

\* C24: every insertion into the pd list (v8_NewNativeFunctionTemplate,
\* v8_NewNativeFunction, v8_NewExternalData, v8_IsolateSetNearOOMHandler) and every
\* removal from it (weak callback, v8_FreeIsolate drain) is made by a thread that
\* holds the isolate lock.
C24_MutationsUnderLock == lastMutation.held

-----------------------------------------------------------------------------
(* The isolate lock: claims C7 - C10, checked under SpecLock and SpecLockFair *)

NoLiveUnlocker(t) == \A k \in 1..Len(frames[t]) : frames[t][k].kind # "unlocker"

UnlockerOnTop(t) == frames[t] # <<>> /\ Top(frames[t]).kind = "unlocker"

\* C7: at most one thread holds the isolate lock, and a thread that has entered the
\* isolate and not yet exited it, with no live unlocker, holds the lock.
C7_MutualExclusion ==
    /\ Cardinality(lockedBy) <= 1
    /\ \A t \in Threads : (entered[t] > 0 /\ NoLiveUnlocker(t)) => t \in lockedBy

\* one thread is inside the isolate while another waits in v8_FreeContext for the lock
C7_Witness ==
    \E t, u \in Threads :
        /\ t # u
        /\ entered[t] > 0 /\ NoLiveUnlocker(t) /\ lockedBy = {t}
        /\ pc[u] = "fc_lock"

\* C8: v8_NewUnlocker leaves the lock free and the creating thread entered; while the
\* unlocker is the newest object of its thread the thread does not hold the lock;
\* v8_FreeUnlocker returns only with the creating thread as the one holder of the lock.
C8_Unlocker ==
    /\ [](\A t \in Threads :
            (UnlockerOnTop(t) /\ pc[t] \in {"idle", "FreeUnlocker_lock"}) =>
                (t \notin lockedBy /\ entered[t] > 0))
    /\ [][\A t \in Threads :
            /\ (Len(frames'[t]) = Len(frames[t]) + 1 /\ Top(frames'[t]).kind = "unlocker") =>
                  /\ lockedBy = {t}
                  /\ lockedBy' = {}
                  /\ entered'[t] = entered[t]
                  /\ entered[t] > 0
            /\ (pc[t] = "FreeUnlocker_lock" /\ pc'[t] = "idle") =>
                  /\ lockedBy = {}
                  /\ lockedBy' = {t}
                  /\ Len(frames'[t]) = Len(frames[t]) - 1]_vars

\* a thread waits in v8_FreeUnlocker while another thread, which entered the isolate
\* after the unlocker was created, is inside the isolate
C8_Witness ==
    \E t, u \in Threads :
        /\ t # u
        /\ UnlockerOnTop(t) /\ pc[t] = "FreeUnlocker_lock" /\ entered[t] > 0
        /\ lockedBy = {u} /\ entered[u] > 0 /\ pc[u] = "idle"

FreeContextOrder ==
    << "fc_lock", "fc_enter", "fc_open_scope", "fc_local_ref", "fc_delete_table",
       "fc_close_scope", "fc_reset_persistent", "fc_delete_persistent", "fc_free_wrapper",
       "fc_exit", "fc_unlock" >>

IsPrefix(s, r) == Len(s) <= Len(r) /\ s = SubSeq(r, 1, Len(s))

Done(t, step) == \E k \in 1..Len(fcTrace[t]) : fcTrace[t][k] = step

\* C10: v8_FreeContext does its steps in the order lock, enter, open scope, local
\* reference, delete side-table, close scope, reset persistent, delete persistent, free
\* wrapper, exit, unlock; the side-table is read while the persistent handle is set and
\* the handle scope is closed before the isolate is exited.
C10_FreeContextOrder ==
    \A t \in Threads :
        /\ IsPrefix(fcTrace[t], FreeContextOrder)
        /\ (pc[t] = "idle" /\ fcTrace[t] # <<>>) => fcTrace[t] = FreeContextOrder
        /\ pc[t] = "fc_delete_table" =>
              /\ contexts[fc[t].ctx].handle = "set"
              /\ fc[t].handle_scope
              /\ fc[t].v8_ctx = PersistentGet(fc[t].ctx)
              /\ t \in lockedBy /\ entered[t] > 0
        /\ (fc[t].ctx # 0 /\ contexts[fc[t].ctx].handle # "set") =>
              /\ Done(t, "fc_delete_table")
              /\ embeddedData[CtxEmbeddedData(fc[t].ctx)].deleted
        /\ (pc[t] = "fc_exit" \/ Done(t, "fc_exit")) => ~fc[t].handle_scope

\* a v8_FreeContext call has returned: the side-table is deleted, the wrapper freed
C10_Witness ==
    \E t \in Threads, c \in DOMAIN contexts :
        /\ pc[t] = "idle"
        /\ fcTrace[t] = FreeContextOrder
        /\ contexts[c].state = "freed" /\ contexts[c].handle = "deleted"
        /\ embeddedData[CtxEmbeddedData(c)].deleted

====
